---- MODULE Spec2Model ----
(***************************************************************************)
(* Model of the course-assistant bot: the per-user session state machine   *)
(* (src/src/main.py, src/src/utils/state.py, src/src/models/state.py),     *)
(* the cycle validator (src/src/utils/validators.py) and the moderation    *)
(* gate (src/src/services/content_moderator.py).                           *)
(*                                                                         *)
(* Python values are modelled uniformly as sequences of tokens: a str is   *)
(* the sequence of its characters, an opaque string produced by an         *)
(* external capability is a one-token sequence, and None / True / False    *)
(* are the one-token sequences <<"None">>, <<"True">>, <<"False">>.        *)
(***************************************************************************)
EXTENDS Integers, Sequences, FiniteSets, TLC

VARIABLES
    user_states,   \* StateManager.user_states: user id -> State
    keyboards,     \* users to whom the language keyboard has been sent
    turn,          \* the handler execution that produced the current state
    ciclo_arg,     \* argument handed to the cycle validator
    ciclo_ret,     \* what both definitions of validate_ciclo returned for it
    mod_reply,     \* what the language capability did when asked to classify
    mod_ret,       \* what both definitions of the moderation check returned
    semantic_search,  \* main.semantic_search: the one SemanticSearch object
    search_call,   \* the last call of SemanticSearch.search and its result
    capability,    \* how many answers the language capability has given and
                   \* how many query turns have ended without one
    tasks          \* the process_query coroutines and where each one stands

vars == <<user_states, keyboards, turn, ciclo_arg, ciclo_ret, mod_reply, mod_ret,
          semantic_search, search_call, capability, tasks>>

\* the variables of each part of the program
bot_vars == <<user_states, keyboards, turn>>
ciclo_vars == <<ciclo_arg, ciclo_ret>>
moderation_vars == <<mod_reply, mod_ret>>
index_vars == <<semantic_search, search_call>>
query_vars == <<capability, tasks>>

\* what the handlers of the bot, the cycle validator, the moderation check
\* and the content index leave alone; a query leaves not_query alone
not_bot == <<ciclo_vars, moderation_vars, index_vars, query_vars>>
not_ciclo == <<bot_vars, moderation_vars, index_vars, query_vars>>
not_moderation == <<bot_vars, ciclo_vars, index_vars, query_vars>>
not_index == <<bot_vars, ciclo_vars, moderation_vars, query_vars>>
not_query == <<keyboards, ciclo_vars, moderation_vars>>

-----------------------------------------------------------------------------
(* Python values *)

None == <<"None">>
PyTrue == <<"True">>
PyFalse == <<"False">>

\* bool(v) for the values the program stores
Truthy(v) == v \notin {None, PyFalse, <<>>}

UPPER == <<"A","B","C","D","E","F","G","H","I","J","K","L","M","N","O","P","Q",
           "R","S","T","U","V","W","X","Y","Z","Á","É","Í","Ó","Ú","Ñ">>
LOWER == <<"a","b","c","d","e","f","g","h","i","j","k","l","m","n","o","p","q",
           "r","s","t","u","v","w","x","y","z","á","é","í","ó","ú","ñ">>

lower_char(c) ==
    IF \E i \in 1..Len(UPPER) : UPPER[i] = c
    THEN LOWER[CHOOSE i \in 1..Len(UPPER) : UPPER[i] = c]
    ELSE c

upper_char(c) ==
    IF \E i \in 1..Len(LOWER) : LOWER[i] = c
    THEN UPPER[CHOOSE i \in 1..Len(LOWER) : LOWER[i] = c]
    ELSE c

\* str.lower()
str_lower(s) == [i \in 1..Len(s) |-> lower_char(s[i])]

\* str.upper()
str_upper(s) == [i \in 1..Len(s) |-> upper_char(s[i])]

Whitespace == {" ", "\t", "\n"}

RECURSIVE str_lstrip(_)
str_lstrip(s) ==
    IF s # <<>> /\ Head(s) \in Whitespace THEN str_lstrip(Tail(s)) ELSE s

RECURSIVE str_rstrip(_)
str_rstrip(s) ==
    IF s # <<>> /\ s[Len(s)] \in Whitespace
    THEN str_rstrip(SubSeq(s, 1, Len(s) - 1))
    ELSE s

\* str.strip()
str_strip(s) == str_rstrip(str_lstrip(s))

\* str.startswith(p)
str_startswith(s, p) == Len(s) >= Len(p) /\ SubSeq(s, 1, Len(p)) = p

-----------------------------------------------------------------------------
(* int(str): surrounding whitespace is stripped, one sign is allowed, the   *)
(* digits may be any Unicode decimal digits and may be separated by single  *)
(* underscores.  A string that is not of this form raises ValueError.       *)

ASCII_DIGITS == <<"0","1","2","3","4","5","6","7","8","9">>
\* ARABIC-INDIC DIGIT ZERO..NINE, named by code point
ARABIC_INDIC_DIGITS == <<"U+0660","U+0661","U+0662","U+0663","U+0664",
                         "U+0665","U+0666","U+0667","U+0668","U+0669">>

IsDecimal(c) ==
    \E i \in 1..10 : ASCII_DIGITS[i] = c \/ ARABIC_INDIC_DIGITS[i] = c

DigitValue(c) ==
    (CHOOSE i \in 1..10 : ASCII_DIGITS[i] = c \/ ARABIC_INDIC_DIGITS[i] = c) - 1

\* digits, with single underscores only between two digits
WellFormedDigits(d) ==
    /\ d # <<>>
    /\ IsDecimal(d[1])
    /\ IsDecimal(d[Len(d)])
    /\ \A i \in 1..Len(d) : IsDecimal(d[i]) \/ d[i] = "_"
    /\ \A i \in 1..(Len(d) - 1) : ~(d[i] = "_" /\ d[i + 1] = "_")

RECURSIVE DigitsValue(_)
DigitsValue(d) ==
    IF d = <<>> THEN 0
    ELSE IF d[Len(d)] = "_" THEN DigitsValue(SubSeq(d, 1, Len(d) - 1))
    ELSE 10 * DigitsValue(SubSeq(d, 1, Len(d) - 1)) + DigitValue(d[Len(d)])

\* [ok |-> FALSE] stands for ValueError
py_int(s) ==
    LET t == str_strip(s)
        signed == t # <<>> /\ t[1] \in {"+", "-"}
        d == IF signed THEN Tail(t) ELSE t
    IN  IF WellFormedDigits(d)
        THEN [ok |-> TRUE,
              val |-> IF signed /\ t[1] = "-" THEN 0 - DigitsValue(d)
                      ELSE DigitsValue(d)]
        ELSE [ok |-> FALSE, val |-> 0]

MinYear == 2000
MaxYear == 2100

\* utils/validators.py
validate_ciclo(ciclo) ==
    IF ciclo = <<>> \/ Len(ciclo) # 5 THEN FALSE
    ELSE LET year == py_int(SubSeq(ciclo, 1, 4))
             semester == py_int(SubSeq(ciclo, 5, 5))
         IN  IF ~year.ok \/ ~semester.ok THEN FALSE
             ELSE MinYear <= year.val /\ year.val <= MaxYear
                  /\ semester.val \in {1, 2}

\* main.py redefines the validator with the same body
main_validate_ciclo(ciclo) ==
    IF ciclo = <<>> \/ Len(ciclo) # 5 THEN FALSE
    ELSE LET year == py_int(SubSeq(ciclo, 1, 4))
             semester == py_int(SubSeq(ciclo, 5, 5))
         IN  IF ~year.ok \/ ~semester.ok THEN FALSE
             ELSE MinYear <= year.val /\ year.val <= MaxYear
                  /\ semester.val \in {1, 2}

-----------------------------------------------------------------------------
(* models/state.py and utils/state.py *)

\* an initial state that does not wait for the language
create_initial_state_language_asked ==
    [messages |-> <<>>,
     course |-> None,
     section |-> None,
     ciclo |-> None,
     modulo |-> None,
     waiting_for_course |-> PyTrue,
     waiting_for_ciclo |-> PyFalse,
     waiting_for_modulo |-> PyFalse,
     waiting_for_section |-> PyFalse,
     pending_course_confirmation |-> None,
     language |-> None,
     waiting_for_language |-> PyFalse,
     updating_course |-> PyFalse,
     update_step |-> None,
     update_course |-> None,
     update_content |-> None,
     update_category |-> None,
     update_ciclo |-> None,
     update_modulo |-> None,
     update_file_path |-> None,
     temp_file_path |-> None,
     can_return_to_menu |-> PyTrue]

create_initial_state ==
    [messages |-> <<>>,
     course |-> None,
     section |-> None,
     ciclo |-> None,
     modulo |-> None,
     waiting_for_course |-> PyFalse,
     waiting_for_ciclo |-> PyFalse,
     waiting_for_modulo |-> PyFalse,
     waiting_for_section |-> PyFalse,
     pending_course_confirmation |-> None,
     language |-> None,
     waiting_for_language |-> PyTrue,
     updating_course |-> PyFalse,
     update_step |-> None,
     update_course |-> None,
     update_content |-> None,
     update_category |-> None,
     update_ciclo |-> None,
     update_modulo |-> None,
     update_file_path |-> None,
     temp_file_path |-> None,
     can_return_to_menu |-> PyTrue]

MaxMessages == 50

\* messages[:50]: the oldest entries are kept
LastMessages_keeps_oldest(messages) ==
    IF Len(messages) > MaxMessages
    THEN SubSeq(messages, 1, MaxMessages)
    ELSE messages

\* messages[-50:]
LastMessages(messages) ==
    IF Len(messages) > MaxMessages
    THEN SubSeq(messages, Len(messages) - MaxMessages + 1, Len(messages))
    ELSE messages

\* get_user_state that replaces the mapping when it creates a session
get_user_state_replaces_mapping(states, user_id) ==
    LET created == IF user_id \in DOMAIN states THEN states
                   ELSE [u \in {user_id} |-> create_initial_state]
    IN  [created EXCEPT ![user_id].messages = LastMessages(@)]

\* StateManager.get_user_state: the mapping after the call
get_user_state(states, user_id) ==
    LET created == IF user_id \in DOMAIN states THEN states
                   ELSE [u \in DOMAIN states \cup {user_id} |->
                            IF u = user_id THEN create_initial_state
                            ELSE states[u]]
    IN  [created EXCEPT ![user_id].messages = LastMessages(@)]

keys_to_reset ==
    {"course", "section", "ciclo", "modulo",
     "waiting_for_course", "waiting_for_ciclo", "waiting_for_modulo",
     "waiting_for_section", "pending_course_confirmation", "updating_course",
     "update_step", "update_course", "update_content", "update_category",
     "update_ciclo", "update_modulo", "update_file_path", "temp_file_path"}

\* reset_state that clears can_return_to_menu with the other keys and does
\* not set it again
reset_state_forbids_return(state) ==
    LET cleared == [key \in DOMAIN state |->
                      IF key \in keys_to_reset \cup {"can_return_to_menu"}
                      THEN IF key \in {"waiting_for_course", "can_return_to_menu"}
                           THEN PyFalse ELSE None
                      ELSE state[key]]
    IN  [cleared EXCEPT !["waiting_for_course"] = PyTrue]

\* reset_state that leaves the update mode and the update step as they are
reset_state_keeps_update_mode(state) ==
    LET cleared == [key \in DOMAIN state |->
                      IF key \in keys_to_reset \ {"updating_course", "update_step"}
                      THEN IF key \in {"waiting_for_course", "can_return_to_menu"}
                           THEN PyFalse ELSE None
                      ELSE state[key]]
    IN  [cleared EXCEPT !["waiting_for_course"] = PyTrue,
                        !["can_return_to_menu"] = PyTrue]

\* reset_state with "language" among the keys it clears
reset_state_clears_language(state) ==
    LET cleared == [key \in DOMAIN state |->
                      IF key \in keys_to_reset \cup {"language"}
                      THEN IF key \in {"waiting_for_course", "can_return_to_menu"}
                           THEN PyFalse ELSE None
                      ELSE state[key]]
    IN  [cleared EXCEPT !["waiting_for_course"] = PyTrue,
                        !["can_return_to_menu"] = PyTrue]

\* StateManager.reset_state
reset_state(state) ==
    LET cleared == [key \in DOMAIN state |->
                      IF key \in keys_to_reset
                      THEN IF key \in {"waiting_for_course", "can_return_to_menu"}
                           THEN PyFalse ELSE None
                      ELSE state[key]]
    IN  [cleared EXCEPT !["waiting_for_course"] = PyTrue,
                        !["can_return_to_menu"] = PyTrue]

-----------------------------------------------------------------------------
(* services/content_moderator.py *)

INAPPROPRIATE == <<"I","N","A","P","P","R","O","P","R","I","A","T","E">>

\* the text after the first ":" (split(":", 1)[1]); <<"IndexError">> if none
RECURSIVE AfterColon(_)
AfterColon(s) ==
    IF s = <<>> THEN <<"IndexError">>
    ELSE IF Head(s) = ":" THEN Tail(s)
    ELSE AfterColon(Tail(s))

WARNING_HEAD == <<"ADVERTENCIA: Tu mensaje ha sido detectado como inapropiado. Razón: ">>

\* the moderation check that rejects when the language capability raises
detect_inappropriate_content_fails_closed(llm) ==
    IF llm.raised
    THEN [approved |-> FALSE, warning |-> WARNING_HEAD]
    ELSE LET result == str_strip(llm.content)
         IN  IF str_startswith(result, INAPPROPRIATE)
             THEN IF AfterColon(result) = <<"IndexError">>
                  THEN [approved |-> TRUE, warning |-> <<>>]
                  ELSE [approved |-> FALSE,
                        warning |-> WARNING_HEAD \o str_strip(AfterColon(result))]
             ELSE [approved |-> TRUE, warning |-> <<>>]

\* ContentModerator.detect_inappropriate_content, given what llm.invoke did:
\* llm = [raised |-> BOOLEAN, content |-> str]
detect_inappropriate_content(llm) ==
    IF llm.raised THEN [approved |-> TRUE, warning |-> <<>>]
    ELSE LET result == str_strip(llm.content)
         IN  IF str_startswith(result, INAPPROPRIATE)
             THEN IF AfterColon(result) = <<"IndexError">>
                  THEN [approved |-> TRUE, warning |-> <<>>]
                  ELSE [approved |-> FALSE,
                        warning |-> WARNING_HEAD \o str_strip(AfterColon(result))]
             ELSE [approved |-> TRUE, warning |-> <<>>]

\* main.py defines the check once more, with the same body
main_detect_inappropriate_content(llm) ==
    IF llm.raised THEN [approved |-> TRUE, warning |-> <<>>]
    ELSE LET result == str_strip(llm.content)
         IN  IF str_startswith(result, INAPPROPRIATE)
             THEN IF AfterColon(result) = <<"IndexError">>
                  THEN [approved |-> TRUE, warning |-> <<>>]
                  ELSE [approved |-> FALSE,
                        warning |-> WARNING_HEAD \o str_strip(AfterColon(result))]
             ELSE [approved |-> TRUE, warning |-> <<>>]

\* what the language capability may do when asked to classify a message
ModerationReplies ==
    { [raised |-> TRUE, content |-> <<>>],
      [raised |-> FALSE, content |-> <<"A","P","P","R","O","P","R","I","A","T","E">>],
      [raised |-> FALSE, content |-> INAPPROPRIATE \o <<":"," ","o","d","i","o">>],
      [raised |-> FALSE, content |-> INAPPROPRIATE] }

-----------------------------------------------------------------------------
(* semantic_search.py.  A text is a token; the embedding capability maps   *)
(* it to a vector, here a point on a line.  The FAISS flat L2 index holds  *)
(* the vectors in insertion order and answers a search with the k nearest  *)
(* ones by squared distance, nearest first, in any order among equals.     *)

MaxCoord == 3

\* SentenceTransformer.encode: the vector of a text
Embedding ==
    [f0 |-> 0, f1 |-> 1, f3 |-> 3, q0 |-> 0, q2 |-> 2,
     g0 |-> 0, g1 |-> 0, g2 |-> 0, g3 |-> 0, g4 |-> 0]

encode(text) == Embedding[text]

Fragments == { "f0", "f1", "f3" }
Queries == { "q0", "q2" }

\* faiss.IndexFlatL2 metric
L2sqr(a, b) == (a - b) * (a - b)

\* the distance FAISS reports for a slot it could not fill (label -1)
FaissPadDistance == (MaxCoord + 1) * (MaxCoord + 1)

\* self.index = None: no FAISS index has been created
NoIndex == [created |-> FALSE, vectors |-> <<>>]

\* SemanticSearch.__init__
SemanticSearch == [index |-> NoIndex, texts |-> <<>>, metadata |-> <<>>]

\* clear that forgets the texts and the metadata but keeps the FAISS index
clear_keeps_index(self) ==
    [self EXCEPT !.texts = <<>>, !.metadata = <<>>]

\* SemanticSearch.clear
clear(self) ==
    [self EXCEPT !.index = NoIndex, !.texts = <<>>, !.metadata = <<>>]

\* SemanticSearch.add_texts: the object after the call.  If encode raises
\* the exception is re-raised and nothing has been stored.
add_texts(self, texts, metadata, encode_raises) ==
    IF encode_raises THEN self
    ELSE [self EXCEPT
            !.index = [created |-> TRUE,
                       vectors |-> self.index.vectors
                                   \o [i \in 1..Len(texts) |-> encode(texts[i])]],
            !.texts = self.texts \o texts,
            !.metadata = self.metadata \o
                         (IF metadata # <<>> THEN metadata
                          ELSE [i \in 1..Len(texts) |-> <<>>])]

\* seq[idx] of Python: idx counts from 0, a negative idx from the end
py_index(seq, idx) == IF idx < 0 THEN seq[Len(seq) + idx + 1] ELSE seq[idx + 1]

\* index.search(query_vector, k): the possible answers, each a sequence of
\* k slots [dist, idx]; the slots beyond the stored vectors are padded
faiss_search(index, q, k) ==
    LET n == Len(index.vectors)
        m == IF k < n THEN k ELSE n
        d(i) == L2sqr(index.vectors[i], q)
        Chosen == { r \in [1..m -> 1..n] :
                      /\ \A i, j \in 1..m : i # j => r[i] # r[j]
                      /\ \A i, j \in 1..m : i < j => d(r[i]) <= d(r[j])
                      /\ \A i \in 1..m : \A x \in 1..n :
                            (\A j \in 1..m : r[j] # x) => d(r[i]) <= d(x) }
    IN  { [i \in 1..k |-> IF i <= m THEN [dist |-> d(r[i]), idx |-> r[i] - 1]
                          ELSE [dist |-> FaissPadDistance, idx |-> 0 - 1]]
          : r \in Chosen }

\* the distance itself taken for the score
score_as_distance(dist) == [num |-> dist, den |-> 1]

\* score = 1 / (1 + dist), as a fraction
score(dist) == [num |-> 1, den |-> 1 + dist]

\* the result list built from one answer of the index
RECURSIVE format_results(_, _)
format_results(self, slots) ==
    IF slots = <<>> THEN <<>>
    ELSE IF Head(slots).idx < Len(self.texts)
    THEN << [text |-> py_index(self.texts, Head(slots).idx),
             metadata |-> py_index(self.metadata, Head(slots).idx),
             score |-> score(Head(slots).dist)] >>
         \o format_results(self, Tail(slots))
    ELSE format_results(self, Tail(slots))

\* search that does not clamp k to the number of stored texts
search_unclamped(self, query, k, encode_raises) ==
    IF encode_raises THEN { <<>> }
    ELSE IF self.index = NoIndex \/ Len(self.texts) = 0 THEN { <<>> }
    ELSE { IF \E i \in 1..Len(slots) : slots[i].idx >= Len(self.metadata)
           THEN <<>>
           ELSE format_results(self, slots)
           : slots \in faiss_search(self.index, encode(query), k) }

\* SemanticSearch.search: the possible return values.  An exception raised
\* by encode, or by metadata[idx] for a text stored without metadata, is
\* caught and the empty list returned.
search(self, query, k, encode_raises) ==
    IF encode_raises THEN { <<>> }
    ELSE IF self.index = NoIndex \/ Len(self.texts) = 0 THEN { <<>> }
    ELSE { IF \E i \in 1..Len(slots) : slots[i].idx >= Len(self.metadata)
           THEN <<>>
           ELSE format_results(self, slots)
           : slots \in faiss_search(self.index, encode(query),
                                    IF k < Len(self.texts) THEN k
                                    ELSE Len(self.texts)) }

-----------------------------------------------------------------------------
(* External collaborators: the course data store and the language          *)
(* capability behind the fuzzy matchers.  Their replies are not validated  *)
(* by the callers, so a reply may be any string.                           *)

NO_MATCH == <<"NO_MATCH">>

\* LLMService.identify_course returns the stripped reply, or NO_MATCH on error
IdentifyCourseReplies == { <<"Algoritmos">>, NO_MATCH }

\* LLMService.identify_module returns the stripped reply, or NO_MATCH on error
IdentifyModuleReplies == { <<"A">>, <<>>, NO_MATCH }

EVALUACION == <<"E","V","A","L","U","A","C","I","Ó","N">>
CLASE == <<"C","L","A","S","E">>
TAREA == <<"T","A","R","E","A">>
SILABO == <<"S","Í","L","A","B","O">>
CRONOGRAMA == <<"C","R","O","N","O","G","R","A","M","A">>
GENERAL == <<"G","E","N","E","R","A","L">>

Categories == { EVALUACION, CLASE, TAREA, SILABO, CRONOGRAMA, GENERAL }

\* LLMService.suggest_category returns the stripped reply, or GENERAL on error;
\* a blank reply is stripped to the empty string
SuggestCategoryReplies == { GENERAL, <<"O","T","R","A">>, <<>> }

MenuKeywords == { <<"m","e","n","u">>, <<"/","m","e","n","u">> }

Affirmatives ==
    { <<"s","í">>, <<"s","i">>, <<"y","e","s">>, <<"y">>,
      <<"a","r","í">>, <<"a","r","i">> }

SpanishChoices ==
    { <<"1">>, <<"e","s">>, <<"e","s","p","a","ñ","o","l">>,
      <<"s","p","a","n","i","s","h">> }

QuechuaChoices ==
    { <<"2">>, <<"q","u">>, <<"q","u","e","c","h","u","a">>,
      <<"q","i","c","h","w","a">> }

ES == <<"e","s">>
QU == <<"q","u">>

\* what one handler execution did: the state it left, the branch it took
\* (br) and how it left it (out), the value the branch tested (res), the
\* external calls it made, in order, and the rows it inserted
Outcome(st, br, out, res, calls, rows) ==
    [st |-> st, br |-> br, out |-> out, res |-> res, calls |-> calls,
     rows |-> rows]

-----------------------------------------------------------------------------
(* main.py: handle_update_flow, one operator per update step *)

\* update_step == "course_selection"
update_course_selection(state, matching_course) ==
    IF matching_course # NO_MATCH
    THEN [state EXCEPT !.update_course = matching_course,
                       !.update_step = <<"content_input">>]
    ELSE state

\* update_content_input that stores the content before the moderation check
update_content_input_stores_first(state, message, llm, suggested_category, calls) ==
    IF message = <<>> \/ str_strip(message) = <<>>
    THEN Outcome(state, "update_content_input", "invalid", str_strip(message),
                 calls, <<>>)
    ELSE IF ~detect_inappropriate_content(llm).approved
    THEN Outcome([state EXCEPT !.update_content = str_strip(message)],
                 "update_content_input", "rejected",
                 detect_inappropriate_content(llm).warning,
                 calls \o <<"detect_inappropriate_content">>, <<>>)
    ELSE Outcome([state EXCEPT !.update_content = str_strip(message),
                               !.update_category = suggested_category,
                               !.update_step = <<"category_confirmation">>],
                 "update_content_input", "accepted", str_strip(message),
                 calls \o <<"detect_inappropriate_content", "suggest_category">>,
                 <<>>)

\* update_step == "content_input": the outcome of the step, llm being what
\* the language capability does for the moderation check and
\* suggested_category what suggest_category returns if it is called
update_content_input(state, message, llm, suggested_category, calls) ==
    IF message = <<>> \/ str_strip(message) = <<>>
    THEN Outcome(state, "update_content_input", "invalid", str_strip(message),
                 calls, <<>>)
    ELSE IF ~detect_inappropriate_content(llm).approved
    THEN Outcome(state, "update_content_input", "rejected",
                 detect_inappropriate_content(llm).warning,
                 calls \o <<"detect_inappropriate_content">>, <<>>)
    ELSE Outcome([state EXCEPT !.update_content = str_strip(message),
                               !.update_category = suggested_category,
                               !.update_step = <<"category_confirmation">>],
                 "update_content_input", "accepted", str_strip(message),
                 calls \o <<"detect_inappropriate_content", "suggest_category">>,
                 <<>>)

\* the confirmation compared with the affirmative words as it is typed
update_category_confirmation_as_typed(state, message) ==
    IF message \in Affirmatives
    THEN [state EXCEPT !.update_step = <<"ciclo_selection">>]
    ELSE [state EXCEPT !.update_step = <<"category_input">>]

\* update_step == "category_confirmation"
update_category_confirmation(state, message) ==
    IF str_lower(message) \in Affirmatives
    THEN [state EXCEPT !.update_step = <<"ciclo_selection">>]
    ELSE [state EXCEPT !.update_step = <<"category_input">>]

\* update_step == "category_input"
update_category_input(state, message) ==
    IF str_upper(message) \in Categories
    THEN [state EXCEPT !.update_category = str_upper(message),
                       !.update_step = <<"ciclo_selection">>]
    ELSE state

\* update_step == "ciclo_selection"
update_ciclo_selection(state, message) ==
    IF main_validate_ciclo(message)
    THEN [state EXCEPT !.update_ciclo = message,
                       !.update_step = <<"section_selection">>]
    ELSE state

\* update_step == "section_selection"
update_section_selection(state, message) ==
    IF message # <<>> /\ str_strip(message) # <<>>
    THEN [state EXCEPT !.section = str_strip(message),
                       !.update_step = <<"modulo_selection">>]
    ELSE state

\* the fields the commit requires, by the name the error message gives them
required_fields(state) ==
    [curso |-> state.update_course,
     seccion |-> state.section,
     ciclo |-> state.update_ciclo,
     modulo |-> state.update_modulo,
     contenido |-> state.update_content,
     categoria |-> state.update_category]

missing_fields(state) ==
    { f \in DOMAIN required_fields(state) : ~Truthy(required_fields(state)[f]) }

\* the row of INSERT INTO updates (course_id, content, category, ciclo, modulo, section)
update_row(state) ==
    [course |-> state.update_course,
     content |-> state.update_content,
     category |-> state.update_category,
     ciclo |-> state.update_ciclo,
     modulo |-> state.update_modulo,
     section |-> state.section]

\* the module step without the test for missing fields
update_modulo_selection_skips_validation(state, matching_modulo, db_ok, calls) ==
    IF matching_modulo = NO_MATCH
    THEN Outcome(state, "update_modulo_selection", "invalid", matching_modulo,
                 calls, <<>>)
    ELSE LET st1 == [state EXCEPT !.update_modulo = matching_modulo]
         IN  IF ~db_ok
             THEN Outcome(st1, "update_modulo_selection", "error",
                          matching_modulo, calls \o <<"get_connection">>, <<>>)
             ELSE Outcome(reset_state(st1), "update_modulo_selection",
                          "committed", matching_modulo,
                          calls \o <<"get_connection">>, <<update_row(st1)>>)

\* the module step that resets the session when the commit fails
update_modulo_selection_resets_on_error(state, matching_modulo, db_ok, calls) ==
    IF matching_modulo = NO_MATCH
    THEN Outcome(state, "update_modulo_selection", "invalid", matching_modulo,
                 calls, <<>>)
    ELSE LET st1 == [state EXCEPT !.update_modulo = matching_modulo]
         IN  IF missing_fields(st1) # {}
             THEN Outcome(reset_state(st1), "update_modulo_selection", "error",
                          matching_modulo, calls, <<>>)
             ELSE IF ~db_ok
             THEN Outcome(reset_state(st1), "update_modulo_selection", "error",
                          matching_modulo, calls \o <<"get_connection">>, <<>>)
             ELSE Outcome(reset_state(st1), "update_modulo_selection",
                          "committed", matching_modulo,
                          calls \o <<"get_connection">>, <<update_row(st1)>>)

\* the module step that inserts the record and leaves the session as it is
update_modulo_selection_without_reset(state, matching_modulo, db_ok, calls) ==
    IF matching_modulo = NO_MATCH
    THEN Outcome(state, "update_modulo_selection", "invalid", matching_modulo,
                 calls, <<>>)
    ELSE LET st1 == [state EXCEPT !.update_modulo = matching_modulo]
         IN  IF missing_fields(st1) # {}
             THEN Outcome(st1, "update_modulo_selection", "error",
                          matching_modulo, calls, <<>>)
             ELSE IF ~db_ok
             THEN Outcome(st1, "update_modulo_selection", "error",
                          matching_modulo, calls \o <<"get_connection">>, <<>>)
             ELSE Outcome(st1, "update_modulo_selection",
                          "committed", matching_modulo,
                          calls \o <<"get_connection">>, <<update_row(st1)>>)

\* update_step == "modulo_selection": the outcome of the step.  The courses
\* table is written by other programs as well, so whether the pending course
\* is found in it and whether the INSERT is carried out (db_ok) is for the
\* data store to say.  The step replies invalid_modulo (out "invalid"),
\* update_error (out "error") or update_summary (out "committed").
update_modulo_selection(state, matching_modulo, db_ok, calls) ==
    IF matching_modulo = NO_MATCH
    THEN Outcome(state, "update_modulo_selection", "invalid", matching_modulo,
                 calls, <<>>)
    ELSE LET st1 == [state EXCEPT !.update_modulo = matching_modulo]
         IN  IF missing_fields(st1) # {}
             THEN Outcome(st1, "update_modulo_selection", "error",
                          matching_modulo, calls, <<>>)
             ELSE IF ~db_ok
             THEN Outcome(st1, "update_modulo_selection", "error",
                          matching_modulo, calls \o <<"get_connection">>, <<>>)
             ELSE Outcome(reset_state(st1), "update_modulo_selection",
                          "committed", matching_modulo,
                          calls \o <<"get_connection">>, <<update_row(st1)>>)

\* handle_update_flow: the set of outcomes for one message.  `calls` are the
\* calls the caller has already made in this turn.
handle_update_flow(state, message, calls) ==
    IF ~Truthy(state.updating_course)
    THEN { Outcome(state, "update", "noop", None, calls, <<>>) }
    ELSE IF message # <<>> /\ str_lower(message) \in MenuKeywords
    THEN { Outcome(reset_state(state), "reset", "reset", None,
                   calls \o <<"get_courses">>, <<>>) }
    ELSE IF state.update_step = <<"course_selection">>
    THEN { Outcome(update_course_selection(state, mc), "update_course_selection",
                   IF mc # NO_MATCH THEN "accepted" ELSE "invalid", mc,
                   calls \o <<"get_courses", "identify_course">>, <<>>)
           : mc \in IdentifyCourseReplies }
    ELSE IF state.update_step = <<"content_input">>
    THEN { update_content_input(state, message, llm, sc, calls)
           : llm \in ModerationReplies, sc \in SuggestCategoryReplies }
    ELSE IF state.update_step = <<"category_confirmation">>
    THEN { Outcome(update_category_confirmation(state, message),
                   "update_category_confirmation", "accepted",
                   str_lower(message), calls, <<>>) }
    ELSE IF state.update_step = <<"category_input">>
    THEN { Outcome(update_category_input(state, message), "update_category_input",
                   IF str_upper(message) \in Categories THEN "accepted"
                   ELSE "invalid",
                   str_upper(message), calls, <<>>) }
    ELSE IF state.update_step = <<"ciclo_selection">>
    THEN { Outcome(update_ciclo_selection(state, message), "update_ciclo_selection",
                   IF main_validate_ciclo(message) THEN "accepted" ELSE "invalid",
                   message, calls, <<>>) }
    ELSE IF state.update_step = <<"section_selection">>
    THEN { Outcome(update_section_selection(state, message),
                   "update_section_selection",
                   IF str_strip(message) # <<>> THEN "accepted" ELSE "invalid",
                   str_strip(message), calls, <<>>) }
    ELSE IF state.update_step = <<"modulo_selection">>
    THEN { update_modulo_selection(state, mm, db_ok,
                                   calls \o <<"identify_module">>)
           : mm \in IdentifyModuleReplies, db_ok \in BOOLEAN }
    ELSE { Outcome(state, "update", "noop", None, calls, <<>>) }

-----------------------------------------------------------------------------
(* main.py: handle_message, one operator per query-flow branch *)

\* if state.get("waiting_for_language")
select_language(state, message) ==
    IF message \in SpanishChoices
    THEN [state EXCEPT !.language = ES,
                       !.waiting_for_language = PyFalse,
                       !.waiting_for_course = PyTrue]
    ELSE IF message \in QuechuaChoices
    THEN [state EXCEPT !.language = QU,
                       !.waiting_for_language = PyFalse,
                       !.waiting_for_course = PyTrue]
    ELSE state

\* select_course that asks for the cycle next, skipping the section
select_course_skips_section(state, matching_course) ==
    IF matching_course # NO_MATCH
    THEN [state EXCEPT !.course = matching_course,
                       !.waiting_for_course = PyFalse,
                       !.waiting_for_ciclo = PyTrue]
    ELSE state

\* if state.get("waiting_for_course")
select_course(state, matching_course) ==
    IF matching_course # NO_MATCH
    THEN [state EXCEPT !.course = matching_course,
                       !.waiting_for_course = PyFalse,
                       !.waiting_for_section = PyTrue]
    ELSE state

\* if state.get("waiting_for_section")
select_section(state, message) ==
    IF message # <<>> /\ str_strip(message) # <<>>
    THEN [state EXCEPT !.section = str_strip(message),
                       !.waiting_for_section = PyFalse,
                       !.waiting_for_ciclo = PyTrue]
    ELSE state

\* select_ciclo that stores the input before validating it
select_ciclo_stores_invalid(state, message) ==
    IF main_validate_ciclo(message)
    THEN [state EXCEPT !.ciclo = message,
                       !.waiting_for_ciclo = PyFalse,
                       !.waiting_for_modulo = PyTrue]
    ELSE [state EXCEPT !.ciclo = message]

\* if state.get("waiting_for_ciclo")
select_ciclo(state, message) ==
    IF main_validate_ciclo(message)
    THEN [state EXCEPT !.ciclo = message,
                       !.waiting_for_ciclo = PyFalse,
                       !.waiting_for_modulo = PyTrue]
    ELSE state

\* if state.get("waiting_for_modulo")
select_modulo(state, matching_modulo) ==
    IF matching_modulo # NO_MATCH
    THEN [state EXCEPT !.modulo = matching_modulo,
                       !.waiting_for_modulo = PyFalse]
    ELSE state

\* a row of the updates table
Row(content, ciclo, modulo, section) ==
    [content |-> content, ciclo |-> ciclo, modulo |-> modulo,
     section |-> section]

\* f"s3://{S3_BUCKET}/{doc_key}": the locator of a stored object, which is
\* also what upload_to_s3 returns for the file_path of a catalogued document
s3_url(doc_key) == <<"s3://", doc_key>>

\* a row of the documents table; its content is what get_document_from_s3
\* returns for its file_path, "" when the object is empty or cannot be read
Document(content, file_path, ciclo, modulo, section) ==
    [content |-> content, file_path |-> file_path, ciclo |-> ciclo,
     modulo |-> modulo, section |-> section]

\* the data store has no course of that name, or raises: get_course_info
\* returns None
NoCourseInfo == [found |-> FALSE, updates |-> <<>>, documents |-> <<>>]

\* what the data store may hold for the course of a session
CourseRecords ==
    { NoCourseInfo,
      [found |-> TRUE,
       updates |-> << Row("f0", <<"2","0","2","4","1">>, <<"A">>, <<"G","1">>),
                      Row("f1", <<"2","0","2","4","2">>, <<"A">>, <<"G","1">>) >>,
       documents |-> <<>>],
      [found |-> TRUE,
       updates |-> << Row("f3", <<"2","0","2","4","1">>, <<"A">>, <<"G","2">>) >>,
       documents |-> << Document("f1", s3_url("k1"), <<"2","0","2","4","1">>,
                                 <<"A">>, <<"G","1">>) >>] }

\* CourseDatabase.get_course_info(course_name, ciclo, modulo, section),
\* record being what the store holds for course_name: the rows of the
\* course, restricted by each argument that is given and not empty
get_course_info(record, ciclo, modulo, section) ==
    LET selected(row) == /\ Truthy(ciclo) => row.ciclo = ciclo
                         /\ Truthy(modulo) => row.modulo = modulo
                         /\ Truthy(section) => row.section = section
    IN  [record EXCEPT !.updates = SelectSeq(@, selected),
                       !.documents = SelectSeq(@, selected)]

\* db.get_course_info(state["course"], state["ciclo"], state["modulo"],
\* state["section"]) of handle_message
CourseInfoReplies(state) ==
    { get_course_info(record, state.ciclo, state.modulo, state.section)
      : record \in CourseRecords }

\* db.get_course_info(course_name) of process_query
QueryCourseInfos ==
    { get_course_info(record, None, None, None) : record \in CourseRecords }

\* process_question that asks for the course again after answering
process_question_restarts(state, info, llm_raises, calls) ==
    IF info.found
    THEN Outcome([state EXCEPT !.waiting_for_course = PyTrue], "query",
                 IF llm_raises THEN "query_error" ELSE "answered", info,
                 calls \o <<"get_course_info", "process_query">>, <<>>)
    ELSE Outcome(state, "query", "no_course_info", info,
                 calls \o <<"get_course_info">>, <<>>)

\* if message and state.get("course"): the outcome of a free-text question,
\* info being what get_course_info returns.  LLMService.process_query
\* returns the stripped answer, or its apology if the capability raises.
process_question(state, info, llm_raises, calls) ==
    IF info.found
    THEN Outcome(state, "query",
                 IF llm_raises THEN "query_error" ELSE "answered", info,
                 calls \o <<"get_course_info", "process_query">>, <<>>)
    ELSE Outcome(state, "query", "no_course_info", info,
                 calls \o <<"get_course_info">>, <<>>)

\* the part of handle_message after the moderation check has passed
dispatch_message(state, message, calls) ==
    IF Truthy(state.updating_course)
    THEN handle_update_flow(state, message, calls)
    ELSE IF Truthy(state.waiting_for_language)
    THEN { Outcome(select_language(state, message), "language",
                   IF message \in SpanishChoices \cup QuechuaChoices
                   THEN "accepted" ELSE "invalid",
                   message, calls, <<>>) }
    ELSE IF Truthy(state.waiting_for_course) /\ message # <<>>
    THEN { Outcome(select_course(state, mc), "course",
                   IF mc # NO_MATCH THEN "accepted" ELSE "invalid", mc,
                   calls \o <<"get_courses", "identify_course">>, <<>>)
           : mc \in IdentifyCourseReplies }
    ELSE IF Truthy(state.waiting_for_section)
    THEN { Outcome(select_section(state, message), "section",
                   IF str_strip(message) # <<>> THEN "accepted" ELSE "invalid",
                   str_strip(message), calls, <<>>) }
    ELSE IF Truthy(state.waiting_for_ciclo)
    THEN { Outcome(IF message # <<>> THEN select_ciclo(state, message) ELSE state,
                   "ciclo",
                   IF main_validate_ciclo(message) THEN "accepted" ELSE "invalid",
                   message, calls, <<>>) }
    ELSE IF Truthy(state.waiting_for_modulo)
    THEN IF message # <<>>
         THEN { Outcome(select_modulo(state, mm), "modulo",
                        IF mm # NO_MATCH THEN "accepted" ELSE "invalid", mm,
                        calls \o <<"identify_module">>, <<>>)
                : mm \in IdentifyModuleReplies }
         ELSE { Outcome(state, "modulo", "invalid", None, calls, <<>>) }
    ELSE IF message # <<>> /\ Truthy(state.course)
    THEN { process_question(state, info, llm_raises, calls)
           : info \in CourseInfoReplies(state), llm_raises \in BOOLEAN }
    ELSE { Outcome(state, "none", "noop", None, calls, <<>>) }

\* handle_message that warns about a rejected text and handles it all the same
handle_message_dispatches_rejected(state, message) ==
    IF message # <<>> /\ str_lower(message) \in MenuKeywords
       /\ Truthy(state.can_return_to_menu)
    THEN { Outcome(reset_state(state), "reset", "reset", None,
                   <<"get_courses">>, <<>>) }
    ELSE IF message = <<>>
    THEN dispatch_message(state, message, <<>>)
    ELSE UNION { IF ~detect_inappropriate_content(llm).approved
                 THEN { Outcome(o.st, "gate", "rejected",
                                detect_inappropriate_content(llm).warning,
                                o.calls, o.rows)
                        : o \in dispatch_message(state, message,
                                     <<"detect_inappropriate_content">>) }
                 ELSE dispatch_message(state, message,
                                       <<"detect_inappropriate_content">>)
                 : llm \in ModerationReplies }

\* handle_message: the set of outcomes for one text message, `state` being
\* what get_user_state returned.  A turn stopped by the moderation check
\* replies with the warning of the check, recorded as the outcome's res.
handle_message(state, message) ==
    IF message # <<>> /\ str_lower(message) \in MenuKeywords
       /\ Truthy(state.can_return_to_menu)
    THEN { Outcome(reset_state(state), "reset", "reset", None,
                   <<"get_courses">>, <<>>) }
    ELSE IF message = <<>>
    THEN dispatch_message(state, message, <<>>)
    ELSE UNION { IF ~detect_inappropriate_content(llm).approved
                 THEN { Outcome(state, "gate", "rejected",
                                detect_inappropriate_content(llm).warning,
                                <<"detect_inappropriate_content">>, <<>>) }
                 ELSE dispatch_message(state, message,
                                       <<"detect_inappropriate_content">>)
                 : llm \in ModerationReplies }

-----------------------------------------------------------------------------
(* main.py: the command and callback handlers *)

\* start
start(state) ==
    IF ~Truthy(state.language) THEN state
    ELSE [state EXCEPT !.waiting_for_course = PyTrue,
                       !.can_return_to_menu = PyTrue]

\* update_course_command that forgets to set the step
update_course_command_no_step(state) ==
    [state EXCEPT !.updating_course = PyTrue]

\* update_course_command
update_course_command(state) ==
    [state EXCEPT !.updating_course = PyTrue,
                  !.update_step = <<"course_selection">>]

\* language_callback, data being the pressed button's callback_data
language_callback(state, data) ==
    [state EXCEPT !.language = data,
                  !.waiting_for_language = PyFalse,
                  !.waiting_for_course = PyTrue,
                  !.can_return_to_menu = PyTrue]

-----------------------------------------------------------------------------
(* The bot as a state machine *)

Users == { "u1" }

\* Text a user may send at any time: the menu keyword and free text.  The code inspects free text only through strip() and the tests of
\* the branch it is handled by, so one free text stands for all of them.
FreeMessages ==
    { <<"M","e","n","u">>, <<"/","m","e","n","u">>, <<" ","G","1">> }

\* what the bot is waiting for, in the order handle_message tests it
Asked(state) ==
    IF Truthy(state.updating_course) THEN state.update_step
    ELSE IF Truthy(state.waiting_for_language) THEN <<"language">>
    ELSE IF Truthy(state.waiting_for_course) THEN <<"course">>
    ELSE IF Truthy(state.waiting_for_section) THEN <<"section">>
    ELSE IF Truthy(state.waiting_for_ciclo) THEN <<"ciclo">>
    ELSE IF Truthy(state.waiting_for_modulo) THEN <<"modulo">>
    ELSE <<"query">>

\* A language choice, a yes, a category label and a cycle are typed in
\* answer to the prompt that asks for them; blank text is sent where text
\* is asked for.
Messages(state) ==
    FreeMessages \cup
    (IF Asked(state) = <<"language">> THEN { ES }
     ELSE IF Asked(state) = <<"category_confirmation">> THEN { <<"S","i">> }
     ELSE IF Asked(state) = <<"category_input">>
     THEN { <<"G","e","n","e","r","a","l">> }
     ELSE IF Asked(state) \in { <<"section">>, <<"section_selection">>,
                                <<"content_input">> }
     THEN { <<" ">> }
     ELSE IF Asked(state) \in { <<"ciclo">>, <<"ciclo_selection">> }
     THEN { <<"2","0","2","4","1">> }
     ELSE {})

\* callback_data of the two language buttons
LanguageButtons == { ES, QU }

MaxCicloLen == 6

\* characters a cycle may be typed with
CicloChars == { "0", "1", "2", "3", "9", "a", " ", "+", "_", "U+0661" }

MaxReplyParts == 4

\* pieces the reply of the language capability to the moderation prompt is
\* made of
ReplyParts ==
    { <<" ">>, <<":">>, INAPPROPRIATE, <<"o","d","i","o">>,
      <<"A","P","P","R","O","P","R","I","A","T","E">> }

\* the empty reply
NoReply == [raised |-> FALSE, content |-> <<>>, parts |-> 0]

\* no call of the content index yet
NoSearch == [op |-> "none", query |-> "", k |-> 0, raised |-> FALSE,
             size |-> 0, results |-> <<>>, added |-> <<>>]

\* no answer given and no query failed yet
NoAnswers == [answers |-> 0, failed |-> 0]

\* a process_query coroutine that has not been started
NoTask ==
    [pc |-> "idle", user |-> "", consulta |-> "", texts |-> <<>>,
     documents |-> <<>>, did_search |-> FALSE, searched |-> <<>>,
     results |-> <<>>, relevant |-> <<>>]

QueryTasks == { "t1", "t2" }

NoTurn ==
    [op |-> "init", user |-> "", msg |-> None, br |-> "none", out |-> "noop",
     res |-> None, calls |-> <<>>, rows |-> <<>>]

Init ==
    /\ user_states = <<>>
    /\ keyboards = {}
    /\ turn = NoTurn
    /\ ciclo_arg = <<>>
    /\ ciclo_ret = [utils |-> FALSE, main |-> FALSE]
    /\ semantic_search = SemanticSearch
    /\ search_call = NoSearch
    /\ capability = NoAnswers
    /\ tasks = [t \in QueryTasks |-> NoTask]
    /\ mod_reply = NoReply
    /\ mod_ret = [moderator |-> detect_inappropriate_content(NoReply),
                  main |-> main_detect_inappropriate_content(NoReply)]

\* a text message reaches handle_message
HandleMessage(user) ==
    LET states == get_user_state(user_states, user)
    IN  \E message \in Messages(states[user]) :
        \E o \in handle_message(states[user], message) :
            /\ user_states' = [states EXCEPT ![user] = o.st]
            /\ turn' = [op |-> "message", user |-> user, msg |-> message,
                        br |-> o.br, out |-> o.out, res |-> o.res,
                        calls |-> o.calls, rows |-> o.rows]
            /\ UNCHANGED <<keyboards, not_bot>>

\* /start
Start(user) ==
    LET states == get_user_state(user_states, user)
    IN  /\ user_states' = [states EXCEPT ![user] = start(states[user])]
        /\ keyboards' = IF ~Truthy(states[user].language)
                        THEN keyboards \cup {user} ELSE keyboards
        /\ turn' = [op |-> "start", user |-> user, msg |-> None,
                    br |-> "start",
                    out |-> IF ~Truthy(states[user].language) THEN "keyboard"
                            ELSE "welcome",
                    res |-> None,
                    calls |-> IF ~Truthy(states[user].language) THEN <<>>
                              ELSE <<"get_courses">>,
                    rows |-> <<>>]
        /\ UNCHANGED not_bot

\* /update
UpdateCourseCommand(user) ==
    LET states == get_user_state(user_states, user)
    IN  /\ user_states' = [states EXCEPT ![user] = update_course_command(states[user])]
        /\ turn' = [op |-> "update", user |-> user, msg |-> None,
                    br |-> "update_command", out |-> "accepted", res |-> None,
                    calls |-> <<"get_courses">>, rows |-> <<>>]
        /\ UNCHANGED <<keyboards, not_bot>>

\* a language button of a keyboard sent earlier is pressed
LanguageCallback(user, data) ==
    /\ user \in keyboards
    /\ LET states == get_user_state(user_states, user)
       IN  user_states' = [states EXCEPT ![user] = language_callback(states[user], data)]
    /\ turn' = [op |-> "callback", user |-> user, msg |-> data,
                br |-> "language_callback", out |-> "accepted", res |-> data,
                calls |-> <<"get_courses">>, rows |-> <<>>]
    /\ UNCHANGED <<keyboards, not_bot>>

Next ==
    \E user \in Users :
        \/ HandleMessage(user)
        \/ Start(user)
        \/ UpdateCourseCommand(user)
        \/ \E data \in LanguageButtons : LanguageCallback(user, data)

Spec == Init /\ [][Next]_vars

-----------------------------------------------------------------------------
(* Two users talk to the bot, their turns interleaved in any order.  Both  *)
(* send text messages; the second one also uses /start and the language    *)
(* buttons.  A handler runs from its first to its last statement without   *)
(* another handler running in between.                                     *)

TwoUsers == { "u1", "u2" }

NextUsers ==
    \/ \E user \in TwoUsers : HandleMessage(user)
    \/ Start("u2")
    \/ \E data \in LanguageButtons : LanguageCallback("u2", data)

SpecUsers == Init /\ [][NextUsers]_vars

-----------------------------------------------------------------------------
(* The cycle validator on its own: a cycle is typed character by character *)
(* and both definitions of validate_ciclo are applied to it.               *)

TypeCiclo(c) ==
    /\ Len(ciclo_arg) < MaxCicloLen
    /\ ciclo_arg' = Append(ciclo_arg, c)
    /\ ciclo_ret' = [utils |-> validate_ciclo(ciclo_arg'),
                     main |-> main_validate_ciclo(ciclo_arg')]
    /\ UNCHANGED not_ciclo

NextCiclo == \E c \in CicloChars : TypeCiclo(c)

SpecCiclo == Init /\ [][NextCiclo]_vars

-----------------------------------------------------------------------------
(* The moderation check on its own: the reply of the language capability   *)
(* grows piece by piece, or the capability raises, and both definitions    *)
(* of the check are applied to it.                                         *)

LlmReplies(part) ==
    /\ ~mod_reply.raised
    /\ mod_reply.parts < MaxReplyParts
    /\ mod_reply' = [raised |-> FALSE, content |-> mod_reply.content \o part,
                     parts |-> mod_reply.parts + 1]
    /\ mod_ret' = [moderator |-> detect_inappropriate_content(mod_reply'),
                   main |-> main_detect_inappropriate_content(mod_reply')]
    /\ UNCHANGED not_moderation

LlmRaises ==
    /\ ~mod_reply.raised
    /\ mod_reply' = [mod_reply EXCEPT !.raised = TRUE]
    /\ mod_ret' = [moderator |-> detect_inappropriate_content(mod_reply'),
                   main |-> main_detect_inappropriate_content(mod_reply')]
    /\ UNCHANGED not_moderation

NextModeration ==
    \/ \E part \in ReplyParts : LlmReplies(part)
    \/ LlmRaises

SpecModeration == Init /\ [][NextModeration]_vars

-----------------------------------------------------------------------------
(* The content index on its own: clear, add_texts and search are called in *)
(* any order.                                                              *)

MaxIndexed == 3
MaxK == 4

\* the metadata process_query builds for a text
MetadataOf(text) == <<"type", text>>

IndexClear ==
    /\ semantic_search' = clear(semantic_search)
    /\ search_call' = [NoSearch EXCEPT !.op = "clear"]
    /\ UNCHANGED not_index

\* add_texts is given one or two texts and their metadata, as process_query
\* gives them
IndexAddTexts(texts, encode_raises) ==
    /\ Len(semantic_search.texts) + Len(texts) <= MaxIndexed
    /\ semantic_search' =
           add_texts(semantic_search, texts,
                     [i \in 1..Len(texts) |-> MetadataOf(texts[i])],
                     encode_raises)
    /\ search_call' = [NoSearch EXCEPT !.op = "add_texts",
                                       !.raised = encode_raises,
                                       !.added = texts]
    /\ UNCHANGED not_index

IndexSearch(query, k, encode_raises) ==
    /\ \E results \in search(semantic_search, query, k, encode_raises) :
          search_call' = [op |-> "search", query |-> query, k |-> k,
                          raised |-> encode_raises,
                          size |-> Len(semantic_search.texts),
                          results |-> results, added |-> <<>>]
    /\ UNCHANGED semantic_search
    /\ UNCHANGED not_index

NextIndex ==
    \/ IndexClear
    \/ \E texts \in { <<f>> : f \in Fragments } \cup
                     { <<f, g>> : f \in Fragments, g \in Fragments } :
         \E encode_raises \in BOOLEAN : IndexAddTexts(texts, encode_raises)
    \/ \E query \in Queries, k \in 1..MaxK, encode_raises \in BOOLEAN :
            IndexSearch(query, k, encode_raises)

SpecIndex == Init /\ [][NextIndex]_vars

-----------------------------------------------------------------------------
(* main.py: process_query, the query orchestrator that works on the        *)
(* content index.  It takes the last entry of the history for the question *)
(* and appends one assistant entry on every path.  main() registers no     *)
(* handler that calls it; its caller does what the caller in app.py does:  *)
(* get the session, append the question, run the query.                    *)

\* one entry of state["messages"]
User(content) == [role |-> "user", content |-> content]
Assistant(content) == [role |-> "assistant", content |-> content]

\* messages["please_start"], ["complete_info"], ["no_course_info"] and the
\* apology of the except branch
PLEASE_START == "please_start"
COMPLETE_INFO == "complete_info"
NO_COURSE_INFO == "no_course_info"
QUERY_ERROR == "Lo siento, hubo un error al procesar tu consulta."

\* response.content of the n-th answer of the language capability
Answer(n) == "answer" \o ToString(n)

\* semantic_search.search(consulta, k=5)
TopK == 5

\* what list_s3_documents and the get_document_from_s3 of each listed key
\* may give: an exception, or the keys listed and the content of each object
NoListing == [raised |-> FALSE, keys |-> <<>>, contents |-> <<>>]

Listings ==
    { [raised |-> TRUE, keys |-> <<>>, contents |-> <<>>],
      NoListing,
      [raised |-> FALSE, keys |-> <<"k1">>, contents |-> <<"f1">>],
      [raised |-> FALSE, keys |-> <<"k1">>, contents |-> <<"">>] }

\* the rows of the session's cycle and module
filtered(rows, state) ==
    SelectSeq(rows, LAMBDA row : row.ciclo = state.ciclo
                                 /\ row.modulo = state.modulo)

\* the content of each row
contents(rows) == [i \in 1..Len(rows) |-> rows[i].content]

\* if content: texts.append(content)
fetched(texts) == SelectSeq(texts, LAMBDA content : content # "")

\* if doc.get('file_path', '').startswith('s3://'): the catalogued
\* documents that are fetched from the storage
catalogued(documents) ==
    SelectSeq(documents, LAMBDA doc : /\ Len(doc.file_path) > 0
                                      /\ doc.file_path[1] = "s3://")

\* process_query up to its first await: the reply of an early return ("" if
\* the query goes on), the texts of the updates and the catalogued documents
query_start(state, info) ==
    IF Len(state.messages) = 0
    THEN [early |-> QUERY_ERROR, out |-> "error", calls |-> <<>>,
          texts |-> <<>>, documents |-> <<>>]
    ELSE IF ~Truthy(state.course)
    THEN [early |-> PLEASE_START, out |-> "please_start", calls |-> <<>>,
          texts |-> <<>>, documents |-> <<>>]
    ELSE IF ~Truthy(state.ciclo) \/ ~Truthy(state.modulo)
            \/ ~Truthy(state.section)
    THEN [early |-> COMPLETE_INFO, out |-> "complete_info", calls |-> <<>>,
          texts |-> <<>>, documents |-> <<>>]
    ELSE IF ~info.found
    THEN [early |-> NO_COURSE_INFO, out |-> "no_course_info",
          calls |-> <<"get_course_info", "get_courses">>,
          texts |-> <<>>, documents |-> <<>>]
    ELSE [early |-> "", out |-> "gathering",
          calls |-> <<"get_course_info", "clear">>,
          texts |-> contents(filtered(info.updates, state)),
          documents |-> filtered(info.documents, state)]

\* the results with a score of 0.5 or more
relevant_info_from_half(search_results) ==
    SelectSeq(search_results,
              LAMBDA result : 2 * result.score.num >= result.score.den)

\* if score > 0.5: the results that go into relevant_info
relevant_info(search_results) ==
    SelectSeq(search_results,
              LAMBDA result : 2 * result.score.num > result.score.den)

\* process_query from its first await on, self being the content index as
\* the coroutine finds it: the possible outcomes.  raises says whether the
\* embedding in add_texts (add), the embedding in search (search) and the
\* language capability (llm) raise.
query_finish(self, consulta, texts, listing, documents, raises, n) ==
    LET gathered == texts \o fetched(listing.contents)
                    \o fetched(contents(catalogued(documents)))
        added == add_texts(self, gathered,
                           [i \in 1..Len(gathered) |-> MetadataOf(gathered[i])],
                           FALSE)
        reply == IF raises.llm THEN QUERY_ERROR ELSE Answer(n)
        out == IF raises.llm THEN "error" ELSE "answered"
    IN  IF gathered = <<>>
        THEN { [index |-> self, texts |-> gathered, did_search |-> FALSE,
                searched |-> <<>>, results |-> <<>>, relevant |-> <<>>, content |-> reply,
                out |-> out, calls |-> <<"list_s3_documents", "invoke">>] }
        ELSE IF raises.add
        THEN { [index |-> self, texts |-> gathered, did_search |-> FALSE,
                searched |-> <<>>, results |-> <<>>, relevant |-> <<>>, content |-> QUERY_ERROR,
                out |-> "error",
                calls |-> <<"list_s3_documents", "add_texts">>] }
        ELSE { [index |-> added, texts |-> gathered, did_search |-> TRUE,
                searched |-> added.texts, results |-> results,
                relevant |-> relevant_info(results),
                content |-> reply, out |-> out,
                calls |-> <<"list_s3_documents", "add_texts", "search",
                            "invoke">>]
               : results \in search(added, consulta, TopK, raises.search) }

\* a session that has gone through the language, course, section, cycle
\* and module prompts
ReadySession ==
    select_modulo(
        select_ciclo(
            select_section(
                select_course(select_language(create_initial_state, ES),
                              <<"Algoritmos">>),
                <<"G","1">>),
            <<"2","0","2","4","1">>),
        <<"A">>)

\* two sessions are ready for queries
InitReady ==
    /\ user_states = [user \in TwoUsers |-> ReadySession]
    /\ keyboards = {}
    /\ turn = NoTurn
    /\ ciclo_arg = <<>>
    /\ ciclo_ret = [utils |-> FALSE, main |-> FALSE]
    /\ semantic_search = SemanticSearch
    /\ search_call = NoSearch
    /\ capability = NoAnswers
    /\ tasks = [t \in QueryTasks |-> NoTask]
    /\ mod_reply = NoReply
    /\ mod_ret = [moderator |-> detect_inappropriate_content(NoReply),
                  main |-> main_detect_inappropriate_content(NoReply)]

\* the search a query has made, if it has made one
SearchOf(consulta, search_raises, o) ==
    IF o.did_search
    THEN [op |-> "search", query |-> consulta, k |-> TopK,
          raised |-> search_raises, size |-> Len(o.searched),
          results |-> o.results, added |-> <<>>]
    ELSE search_call

QueryTurn(user, consulta, o) ==
    [op |-> "query", user |-> user, msg |-> consulta, br |-> "process_query",
     out |-> o.out, res |-> o.content, calls |-> o.calls, rows |-> <<>>]

\* One query turn from the caller's get_user_state to the end of
\* process_query, nothing else running in between.  info is what the data
\* store returns, listing what the storage returns, and the three flags say
\* whether the embedding in add_texts, the embedding in search and the
\* language capability raise.
Query(user, consulta, info, listing, add_raises, search_raises, llm_raises) ==
    LET states == get_user_state(user_states, user)
        state == [states[user] EXCEPT !.messages = Append(@, User(consulta))]
        s == query_start(state, info)
    IN  IF s.early # ""
        THEN /\ user_states' =
                    [states EXCEPT ![user].messages =
                        Append(state.messages, Assistant(s.early))]
             /\ turn' = QueryTurn(user, consulta,
                                  [out |-> s.out, content |-> s.early,
                                   calls |-> s.calls])
             /\ capability' = [capability EXCEPT !.failed = @ + 1]
             /\ UNCHANGED <<index_vars, tasks, not_query>>
        ELSE \E o \in query_finish(clear(semantic_search), consulta, s.texts,
                                   listing, s.documents,
                                   [add |-> add_raises,
                                    search |-> search_raises,
                                    llm |-> llm_raises],
                                   capability.answers + 1) :
                /\ user_states' =
                       [states EXCEPT ![user].messages =
                           Append(state.messages, Assistant(o.content))]
                /\ semantic_search' = o.index
                /\ search_call' = SearchOf(consulta, search_raises, o)
                /\ turn' = QueryTurn(user, consulta,
                                     [o EXCEPT !.calls = s.calls \o @])
                /\ capability' =
                       IF o.out = "error"
                       THEN [capability EXCEPT !.failed = @ + 1]
                       ELSE [capability EXCEPT !.answers = @ + 1]
                /\ UNCHANGED <<tasks, not_query>>

-----------------------------------------------------------------------------
(* The history of one session over many query turns: the user asks the     *)
(* same question again and again, the data store knows the course or not,  *)
(* and the language capability answers or raises.                          *)

MaxQueries == 28
MaxFailed == 1

NextHistory ==
    /\ capability.answers + capability.failed < MaxQueries
    /\ \E info \in QueryCourseInfos, llm_raises \in BOOLEAN :
          /\ (llm_raises \/ ~info.found) => capability.failed < MaxFailed
          /\ Query("u1", "q0", info, NoListing,
                   FALSE, FALSE, llm_raises)

SpecHistory == InitReady /\ [][NextHistory]_vars

-----------------------------------------------------------------------------
(* Sessions over many query turns: one user has a session that is ready    *)
(* for queries, the other has never been seen.                             *)

InitSessions ==
    /\ user_states = [user \in {"u1"} |-> ReadySession]
    /\ keyboards = {}
    /\ turn = NoTurn
    /\ ciclo_arg = <<>>
    /\ ciclo_ret = [utils |-> FALSE, main |-> FALSE]
    /\ semantic_search = SemanticSearch
    /\ search_call = NoSearch
    /\ capability = NoAnswers
    /\ tasks = [t \in QueryTasks |-> NoTask]
    /\ mod_reply = NoReply
    /\ mod_ret = [moderator |-> detect_inappropriate_content(NoReply),
                  main |-> main_detect_inappropriate_content(NoReply)]

NextSessions ==
    /\ capability.answers + capability.failed < MaxQueries
    /\ \E user \in TwoUsers, info \in QueryCourseInfos, llm_raises \in BOOLEAN :
          /\ (\/ llm_raises
              \/ ~info.found
              \/ ~Truthy(get_user_state(user_states, user)[user].course))
                 => capability.failed < MaxFailed
          /\ Query(user, "q0", info, NoListing,
                   FALSE, FALSE, llm_raises)

SpecSessions == InitSessions /\ [][NextSessions]_vars

-----------------------------------------------------------------------------
(* Two queries run as coroutines on one event loop.  A coroutine runs      *)
(* until it awaits an external call: process_query awaits the storage      *)
(* listing after it has cleared the content index, and is resumed later.   *)

\* the caller starts process_query, which runs to its first await or to an
\* early return
Begin(t, user, consulta, info) ==
    LET states == get_user_state(user_states, user)
        state == [states[user] EXCEPT !.messages = Append(@, User(consulta))]
        s == query_start(state, info)
    IN  /\ tasks[t].pc = "idle"
        /\ IF s.early # ""
           THEN /\ user_states' =
                       [states EXCEPT ![user].messages =
                           Append(state.messages, Assistant(s.early))]
                /\ tasks' = [tasks EXCEPT ![t] =
                                [NoTask EXCEPT !.pc = "done", !.user = user,
                                               !.consulta = consulta]]
                /\ turn' = QueryTurn(user, consulta,
                                     [out |-> s.out, content |-> s.early,
                                      calls |-> s.calls])
                /\ capability' = [capability EXCEPT !.failed = @ + 1]
                /\ UNCHANGED <<index_vars, not_query>>
           ELSE /\ user_states' = [states EXCEPT ![user] = state]
                /\ semantic_search' = clear(semantic_search)
                /\ tasks' = [tasks EXCEPT ![t] =
                                [NoTask EXCEPT !.pc = "listing",
                                               !.user = user,
                                               !.consulta = consulta,
                                               !.texts = s.texts,
                                               !.documents = s.documents]]
                /\ turn' = QueryTurn(user, consulta,
                                     [out |-> "suspended", content |-> "",
                                      calls |-> s.calls])
                /\ UNCHANGED <<search_call, capability, not_query>>

\* the storage answers and process_query runs from there to its end
Finish(t, listing, add_raises, search_raises, llm_raises) ==
    /\ tasks[t].pc = "listing"
    /\ \E o \in query_finish(semantic_search, tasks[t].consulta,
                             tasks[t].texts, listing, tasks[t].documents,
                             [add |-> add_raises, search |-> search_raises,
                              llm |-> llm_raises],
                             capability.answers + 1) :
          /\ user_states' =
                 [user_states EXCEPT ![tasks[t].user].messages =
                     Append(@, Assistant(o.content))]
          /\ semantic_search' = o.index
          /\ search_call' = SearchOf(tasks[t].consulta, search_raises, o)
          /\ tasks' = [tasks EXCEPT ![t] =
                          [@ EXCEPT !.pc = "done", !.texts = o.texts,
                                    !.did_search = o.did_search,
                                    !.searched = o.searched,
                                    !.results = o.results,
                                    !.relevant = o.relevant]]
          /\ turn' = QueryTurn(tasks[t].user, tasks[t].consulta, o)
          /\ capability' =
                 IF o.out = "error"
                 THEN [capability EXCEPT !.failed = @ + 1]
                 ELSE [capability EXCEPT !.answers = @ + 1]
          /\ UNCHANGED not_query

NextQueries ==
    \E t \in QueryTasks :
        \/ \E user \in TwoUsers, consulta \in Queries,
              info \in QueryCourseInfos :
                Begin(t, user, consulta, info)
        \/ \E listing \in Listings :
           \E add_raises, search_raises, llm_raises \in BOOLEAN :
                Finish(t, listing, add_raises, search_raises, llm_raises)

SpecQueries == InitReady /\ [][NextQueries]_vars

-----------------------------------------------------------------------------
(* One query over a course with more fragments than a search returns, some *)
(* as near to the question as others.                                      *)

\* course records with six updates at the same distance from a question,
\* and with updates at distance 0, 1 and 9 from it
RelevanceCourseInfos ==
    { [found |-> TRUE,
       updates |-> [i \in 1..6 |->
                       Row(<<"f0", "g0", "g1", "g2", "g3", "g4">>[i],
                           <<"2","0","2","4","1">>, <<"A">>, <<"G","1">>)],
       documents |-> <<>>],
      [found |-> TRUE,
       updates |-> [i \in 1..3 |->
                       Row(<<"f3", "f1", "f0">>[i],
                           <<"2","0","2","4","1">>, <<"A">>, <<"G","1">>)],
       documents |-> <<>>] }

NextRelevance ==
    \/ \E consulta \in Queries, info \in RelevanceCourseInfos :
            Begin("t1", "u1", consulta, info)
    \/ \E listing \in Listings :
       \E add_raises, search_raises, llm_raises \in BOOLEAN :
            Finish("t1", listing, add_raises, search_raises, llm_raises)

SpecRelevance == InitReady /\ [][NextRelevance]_vars

-----------------------------------------------------------------------------
(* Two text turns of one session run as coroutines on one event loop while *)
(* the session is at the module step of the update flow.  handle_message   *)
(* runs until it awaits a reply of the language capability: the moderation *)
(* check, then the module matching.  reset_state is a coroutine of this    *)
(* program without an await of its own: awaited, it runs to its end, and   *)
(* the turn can be suspended only after it, at the reply to the user.      *)

\* a reply of the language capability that the moderation check approves
Approving ==
    [raised |-> FALSE, content |-> <<"A","P","P","R","O","P","R","I","A","T","E">>]

\* a session that has gone through /update, the course, the content, the
\* confirmation of the category, the cycle and the section
ModuleStepSession ==
    update_section_selection(
        update_ciclo_selection(
            update_category_confirmation(
                update_content_input(
                    update_course_selection(
                        update_course_command(
                            select_language(create_initial_state, ES)),
                        <<"Algoritmos">>),
                    <<" ","G","1">>, Approving, GENERAL, <<>>).st,
                <<"S","i">>),
            <<"2","0","2","4","1">>),
        <<" ","G","1">>)

\* a handler that has not been called; rows are the records it has inserted
NoHandler == [pc |-> "idle", user |-> "", msg |-> None, rows |-> <<>>, turns |-> 0]

InitModuleStep ==
    /\ user_states = [user \in Users |-> ModuleStepSession]
    /\ keyboards = {}
    /\ turn = NoTurn
    /\ ciclo_arg = <<>>
    /\ ciclo_ret = [utils |-> FALSE, main |-> FALSE]
    /\ semantic_search = SemanticSearch
    /\ search_call = NoSearch
    /\ capability = NoAnswers
    /\ tasks = [t \in QueryTasks |-> NoHandler]
    /\ mod_reply = NoReply
    /\ mod_ret = [moderator |-> detect_inappropriate_content(NoReply),
                  main |-> main_detect_inappropriate_content(NoReply)]

MaxTurns == 2

HandlerTurn(t, br, out, res, calls, rows) ==
    [op |-> "message", user |-> tasks[t].user, msg |-> tasks[t].msg, br |-> br,
     out |-> out, res |-> res, calls |-> calls, rows |-> rows]

\* handle_message is called with a text and runs to its first await: the
\* moderation check, or the end of reset_state for the reset keyword
Receive(t, user, message) ==
    LET states == get_user_state(user_states, user)
        state == states[user]
        menu == /\ str_lower(message) \in MenuKeywords
                /\ Truthy(state.can_return_to_menu)
    IN  /\ tasks[t].pc \in {"idle", "done"}
        /\ tasks[t].turns < MaxTurns
        /\ message # <<>>
        /\ user_states' = IF menu
                          THEN [states EXCEPT ![user] = reset_state(state)]
                          ELSE states
        /\ tasks' = [tasks EXCEPT ![t].pc = IF menu THEN "reply"
                                            ELSE "moderation",
                                  ![t].user = user,
                                  ![t].msg = message,
                                  ![t].turns = @ + 1]
        /\ turn' = [op |-> "message", user |-> user, msg |-> message,
                    br |-> IF menu THEN "reset" ELSE "gate",
                    out |-> IF menu THEN "reset" ELSE "suspended",
                    res |-> None,
                    calls |-> IF menu THEN <<>>
                              ELSE <<"detect_inappropriate_content">>,
                    rows |-> <<>>]
        /\ UNCHANGED <<capability, index_vars, not_query>>

\* the moderation check answers: a rejected text ends the turn, a text for
\* the module step runs to the await of the module matching, any other text
\* is handled to the end
Moderated(t, llm) ==
    LET state == user_states[tasks[t].user]
        calls == <<"detect_inappropriate_content">>
    IN  /\ tasks[t].pc = "moderation"
        /\ IF ~detect_inappropriate_content(llm).approved
           THEN /\ tasks' = [tasks EXCEPT ![t].pc = "done"]
                /\ turn' = HandlerTurn(t, "gate", "rejected",
                                       detect_inappropriate_content(llm).warning,
                                       calls, <<>>)
                /\ UNCHANGED user_states
           ELSE IF /\ Truthy(state.updating_course)
                   /\ str_lower(tasks[t].msg) \notin MenuKeywords
                   /\ state.update_step = <<"modulo_selection">>
           THEN /\ tasks' = [tasks EXCEPT ![t].pc = "identify"]
                /\ turn' = HandlerTurn(t, "update_modulo_selection",
                                       "suspended", None,
                                       calls \o <<"identify_module">>, <<>>)
                /\ UNCHANGED user_states
           ELSE \E o \in dispatch_message(state, tasks[t].msg, calls) :
                /\ user_states' = [user_states EXCEPT ![tasks[t].user] = o.st]
                /\ tasks' = [tasks EXCEPT ![t].pc = "done"]
                /\ turn' = HandlerTurn(t, o.br, o.out, o.res, o.calls, o.rows)
        /\ UNCHANGED <<capability, index_vars, not_query>>

\* the module matching answers and the module step runs from there through
\* the insert and reset_state, on the session as it is by then
Identified(t, matching_modulo, db_ok) ==
    LET state == user_states[tasks[t].user]
        o == update_modulo_selection(state, matching_modulo, db_ok,
                 <<"detect_inappropriate_content", "identify_module">>)
    IN  /\ tasks[t].pc = "identify"
        /\ user_states' = [user_states EXCEPT ![tasks[t].user] = o.st]
        /\ tasks' = [tasks EXCEPT ![t].pc = IF o.out = "committed"
                                            THEN "reply" ELSE "done",
                                  ![t].rows = @ \o o.rows]
        /\ turn' = HandlerTurn(t, o.br, o.out, o.res, o.calls, o.rows)
        /\ UNCHANGED <<capability, index_vars, not_query>>

\* the reply after reset_state has been sent
Replied(t) ==
    /\ tasks[t].pc = "reply"
    /\ tasks' = [tasks EXCEPT ![t].pc = "done"]
    /\ UNCHANGED <<user_states, turn, capability, index_vars, not_query>>

NextModuleStep ==
    \E t \in QueryTasks :
        \/ \E user \in Users : \E message \in Messages(user_states[user]) :
               Receive(t, user, message)
        \/ \E llm \in ModerationReplies : Moderated(t, llm)
        \/ \E mm \in IdentifyModuleReplies, db_ok \in BOOLEAN :
               Identified(t, mm, db_ok)
        \/ Replied(t)

SpecModuleStep == InitModuleStep /\ [][NextModuleStep]_vars

-----------------------------------------------------------------------------
(* Properties *)

\* the session of a user as a handler sees it (created on first contact)
StateOf(states, user) == get_user_state(states, user)[user]

\* the last handler execution was a text message of this user
MessageTurn(t, user) == t.op = "message" /\ t.user = user

Selectors(state) == <<state.course, state.section, state.ciclo, state.modulo>>

UpdateFields(state) ==
    <<state.update_step, state.update_course, state.update_content,
      state.update_category, state.update_ciclo, state.update_modulo>>

WaitingFlags(state) ==
    [language |-> state.waiting_for_language,
     course |-> state.waiting_for_course,
     section |-> state.waiting_for_section,
     ciclo |-> state.waiting_for_ciclo,
     modulo |-> state.waiting_for_modulo,
     updating |-> state.updating_course]

AwaitingCourse(state) ==
    /\ Selectors(state) = <<None, None, None, None>>
    /\ UpdateFields(state) = <<None, None, None, None, None, None>>
    /\ ~Truthy(state.updating_course)
    /\ Asked(state) = <<"course">>

ReadyForQuery(state) ==
    /\ \A f \in DOMAIN WaitingFlags(state) : ~Truthy(WaitingFlags(state)[f])
    /\ Truthy(state.course)

\* C1: a turn whose text is the reset keyword ("menu" or "/menu" in any case)
\* leaves the session in awaiting-course from every state: selectors and
\* update fields unset, update mode off, the next input taken as a course name.
C1_ResetReturnsToAwaitingCourse ==
    \A u \in Users :
        (MessageTurn(turn, u) /\ str_lower(turn.msg) \in MenuKeywords)
            => AwaitingCourse(user_states[u])

\* C2: a reset (by keyword or after a commit) leaves language and message
\* history as they were, and a language once set is never unset again.
C2_LanguagePreserved ==
    [][\A u \in Users :
          LET pre == StateOf(user_states, u)
              post == StateOf(user_states', u)
          IN  /\ Truthy(pre.language) => Truthy(post.language)
              /\ (turn'.user = u /\ (turn'.br = "reset" \/ turn'.out = "committed"))
                    => /\ post.language = pre.language
                       /\ post.messages = pre.messages]_vars

C2_Witness ==
    \E u \in Users :
        /\ MessageTurn(turn, u)
        /\ turn.br = "reset"
        /\ user_states[u].language = QU

\* C3: at most one of the flags awaiting-language, awaiting-course,
\* awaiting-section, awaiting-cycle, awaiting-module and updating is set.
C3_ExactlyOneMode ==
    \A u \in DOMAIN user_states :
        Cardinality({ f \in DOMAIN WaitingFlags(user_states[u]) :
                        Truthy(WaitingFlags(user_states[u])[f]) }) <= 1

\* C4: the update step is non-null exactly when the session is in update mode.
C4_StepIffUpdating ==
    \A u \in DOMAIN user_states :
        (user_states[u].update_step # None)
            <=> Truthy(user_states[u].updating_course)

C4_Witness ==
    \E u \in DOMAIN user_states :
        /\ Truthy(user_states[u].updating_course)
        /\ user_states[u].update_step = <<"modulo_selection">>

\* the states of the query flow, in order
QueryFlow ==
    << <<"language">>, <<"course">>, <<"section">>, <<"ciclo">>, <<"modulo">>,
       <<"query">> >>

FlowIndex(asked) == CHOOSE i \in 1..Len(QueryFlow) : QueryFlow[i] = asked

\* the input of a query-flow turn passed the test of its branch
QueryInputAccepted(t) ==
    \/ t.br = "language" /\ t.msg \in SpanishChoices \cup QuechuaChoices
    \/ t.br = "course" /\ t.res # NO_MATCH
    \/ t.br = "section" /\ str_strip(t.msg) # <<>>
    \/ t.br = "ciclo" /\ validate_ciclo(t.msg)
    \/ t.br = "modulo" /\ t.res # NO_MATCH

C6_ReadyForQueryStays ==
    [][\A u \in Users :
          LET pre == StateOf(user_states, u)
              post == StateOf(user_states', u)
          IN  (ReadyForQuery(pre) /\ turn'.user = u /\ turn'.br # "reset")
                => /\ ReadyForQuery(post)
                   /\ Selectors(post) = Selectors(pre)]_vars

\* C6 amended: once in ready-for-query, every later text message that is not
\* a reset is stopped by the moderation gate or handled as a free-text
\* question, and leaves every field of the session unchanged.
C6_ReadyForQueryStaysOnText ==
    [][\A u \in Users :
          LET pre == StateOf(user_states, u)
              post == StateOf(user_states', u)
          IN  (ReadyForQuery(pre) /\ MessageTurn(turn', u) /\ turn'.br # "reset")
                => /\ turn'.br \in {"gate", "query"}
                   /\ post = pre]_vars

C6_Witness ==
    \E u \in Users :
        /\ MessageTurn(turn, u)
        /\ turn.br = "query"
        /\ turn.out = "answered"
        /\ ReadyForQuery(user_states[u])

\* the input of a collecting step failed the validation or matching of the step
InputFailed(t) ==
    \/ t.br \in {"course", "update_course_selection"} /\ t.res = NO_MATCH
    \/ t.br \in {"section", "update_section_selection"} /\ str_strip(t.msg) = <<>>
    \/ t.br \in {"ciclo", "update_ciclo_selection"} /\ ~validate_ciclo(t.msg)
    \/ t.br \in {"modulo", "update_modulo_selection"} /\ t.res = NO_MATCH
    \/ t.br = "update_category_input" /\ str_upper(t.msg) \notin Categories
    \/ t.br = "update_content_input" /\ str_strip(t.msg) = <<>>

\* C7: in every collecting state of both flows an input that fails validation
\* or matching leaves every field of the session unchanged.
C7_InvalidInputChangesNothing ==
    [][\A u \in Users :
          (MessageTurn(turn', u) /\ InputFailed(turn'))
            => StateOf(user_states', u) = StateOf(user_states, u)]_vars

C7_Witness ==
    \E u \in Users :
        /\ MessageTurn(turn, u)
        /\ turn.br = "ciclo"
        /\ ~validate_ciclo(turn.msg)
        /\ Asked(user_states[u]) = <<"ciclo">>

AsciiDigits == { ASCII_DIGITS[i] : i \in 1..10 }

\* five characters: a year 2000..2100 written with the digits 0-9, then 1 or 2
CicloFormat(ciclo) ==
    /\ Len(ciclo) = 5
    /\ \A i \in 1..4 : ciclo[i] \in AsciiDigits
    /\ LET year == 1000 * DigitValue(ciclo[1]) + 100 * DigitValue(ciclo[2])
                   + 10 * DigitValue(ciclo[3]) + DigitValue(ciclo[4])
       IN  2000 <= year /\ year <= 2100
    /\ ciclo[5] \in {"1", "2"}

\* C8: the validator returns true exactly for the 5-character strings made
\* of a year 2000..2100 followed by 1 or 2, and both definitions agree.
C8_CicloValidator ==
    /\ ciclo_ret.utils = CicloFormat(ciclo_arg)
    /\ ciclo_ret.main = ciclo_ret.utils

\* C9: while the language of a session is unset no turn or command sets a
\* selector, enters the update flow or writes a pending-update field.
C9_LanguageFirst ==
    [][\A u \in Users :
          LET pre == StateOf(user_states, u)
              post == StateOf(user_states', u)
          IN  ~Truthy(pre.language)
                => /\ Selectors(post) = Selectors(pre)
                   /\ ~Truthy(post.updating_course)
                   /\ UpdateFields(post) = UpdateFields(pre)]_vars

\* C10: when moderation rejects the text submitted in awaiting-update-content
\* the session stays there, content and category are not written and the
\* category-suggestion capability is not called in that turn.
C10_RejectedContentNotStored ==
    [][\A u \in Users :
          LET pre == StateOf(user_states, u)
              post == StateOf(user_states', u)
          IN  (MessageTurn(turn', u) /\ turn'.out = "rejected"
               /\ Asked(pre) = <<"content_input">>)
                => /\ Asked(post) = <<"content_input">>
                   /\ post.update_content = pre.update_content
                   /\ post.update_category = pre.update_category
                   /\ \A i \in 1..Len(turn'.calls) :
                          turn'.calls[i] # "suggest_category"]_vars

C10_Witness ==
    \E u \in Users :
        /\ MessageTurn(turn, u)
        /\ turn.br = "update_content_input"
        /\ turn.out = "rejected"
        /\ Asked(user_states[u]) = <<"content_input">>

\* the calls of a turn other than those of the moderation check
CallsBeyondModeration(t) ==
    { i \in 1..Len(t.calls) : t.calls[i] # "detect_inappropriate_content" }

\* C11: when the moderation check rejects a text that is not a reset, the
\* turn replies with the warning of the check, every field of the session is
\* left as it was and no call other than the moderation check is made.
C11_GateRejectionChangesNothing ==
    [][\A u \in Users :
          (MessageTurn(turn', u) /\ turn'.out = "rejected")
            => /\ StateOf(user_states', u) = StateOf(user_states, u)
               /\ str_startswith(turn'.res, WARNING_HEAD)
               /\ CallsBeyondModeration(turn') = {}]_vars

C11_Witness ==
    \E u \in Users :
        /\ MessageTurn(turn, u)
        /\ turn.br = "gate"
        /\ turn.out = "rejected"
        /\ str_startswith(turn.res, WARNING_HEAD)
        /\ ReadyForQuery(user_states[u])

HasColon(s) == \E i \in 1..Len(s) : s[i] = ":"

\* the reply, stripped, starts with INAPPROPRIATE and has a ":" after it
CarriesReason(reply) ==
    /\ ~reply.raised
    /\ str_startswith(str_strip(reply.content), INAPPROPRIATE)
    /\ HasColon(str_strip(reply.content))

\* C12: the moderation check fails open: when the language capability
\* raises, or its reply does not start with INAPPROPRIATE, or starts with it
\* but has no ":" reason, the check approves with an empty warning; it
\* rejects only a reply that starts with INAPPROPRIATE and carries a ":"
\* reason.  Both definitions of the check do so.
C12_ModerationFailsOpen ==
    /\ ~CarriesReason(mod_reply)
          => mod_ret.moderator = [approved |-> TRUE, warning |-> <<>>]
    /\ ~mod_ret.moderator.approved => CarriesReason(mod_reply)
    /\ mod_ret.main = mod_ret.moderator

C12_Witness ==
    /\ ~mod_reply.raised
    /\ str_startswith(str_strip(mod_reply.content), INAPPROPRIATE)
    /\ mod_reply.parts > 1
    /\ ~HasColon(mod_reply.content)
    /\ mod_ret.moderator = [approved |-> TRUE, warning |-> <<>>]

\* the last turn was handled by the module step of the update flow, which
\* took the matcher's answer for a module
ModuleAccepted(t, u) ==
    /\ MessageTurn(t, u)
    /\ t.br = "update_modulo_selection"
    /\ t.res # NO_MATCH

\* the session at commit time: the pending update with the accepted module
AtCommit(state, t) == [state EXCEPT !.update_modulo = t.res]

\* C13: when the update flow accepts a module and course, content, category,
\* cycle, section and module are all present, exactly one record with these
\* six values is committed and the session is reset to awaiting-course:
\* update mode off, every update field and selector unset.
C13_CommitThenAwaitingCourse ==
    [][\A u \in Users :
          LET pre == StateOf(user_states, u)
              post == StateOf(user_states', u)
          IN  (ModuleAccepted(turn', u) /\ missing_fields(AtCommit(pre, turn')) = {})
                => /\ turn'.rows = <<update_row(AtCommit(pre, turn'))>>
                   /\ AwaitingCourse(post)]_vars

\* C14: every record the update flow writes has a non-empty course, content,
\* category, cycle, section and module; when one of them is missing at
\* commit time nothing is written and the turn replies with the error
\* message.
C14_NoPartialCommit ==
    [][\A u \in Users :
          LET pre == StateOf(user_states, u)
          IN  /\ \A i \in 1..Len(turn'.rows) :
                    \A f \in DOMAIN turn'.rows[i] : Truthy(turn'.rows[i][f])
              /\ (ModuleAccepted(turn', u)
                  /\ missing_fields(AtCommit(pre, turn')) # {})
                    => /\ turn'.rows = <<>>
                       /\ turn'.out = "error"]_vars

C14_Witness ==
    \E u \in Users :
        /\ ModuleAccepted(turn, u)
        /\ missing_fields(user_states[u]) = {"categoria"}
        /\ turn.rows = <<>>
        /\ turn.out = "error"

\* C15: whenever the update flow accepts a module, the pending course,
\* content, category, cycle and section are all non-empty, so the
\* missing-field error cannot occur.
C15_NothingMissingAtCommit ==
    [][\A u \in Users :
          LET pre == StateOf(user_states, u)
          IN  ModuleAccepted(turn', u)
                => missing_fields(AtCommit(pre, turn')) \subseteq {"modulo"}]_vars

Min(a, b) == IF a < b THEN a ELSE b

\* C19 as stated: search(query, k), k >= 1, on an index holding N entries
\* returns exactly min(k, N) results, and the empty list on an empty index.
C19_SearchReturnsMinKN ==
    search_call.op = "search"
        => Len(search_call.results) = Min(search_call.k, search_call.size)

\* C19 amended: search(query, k), k >= 1, on an index holding N entries
\* returns exactly min(k, N) results when the query is embedded, the empty
\* list on an empty index, and the empty list when the embedding raises.
C19_SearchReturnsMinKNIfEmbedded ==
    search_call.op = "search"
        => IF search_call.raised
           THEN search_call.results = <<>>
           ELSE Len(search_call.results)
                    = Min(search_call.k, search_call.size)

C19_Witness ==
    /\ search_call.op = "search"
    /\ ~search_call.raised
    /\ search_call.size = 2
    /\ search_call.k > search_call.size
    /\ Len(search_call.results) = 2

\* a <= b for fractions with positive denominators
FracLeq(a, b) == a.num * b.den <= b.num * a.den

\* the results are N, ordered by non-increasing score, each score being
\* 1 / (1 + distance of its text to the query) and lying in (0, 1]
RankedByScore(call) ==
    /\ Len(call.results) = call.size
    /\ \A i, j \in 1..Len(call.results) :
          i < j => FracLeq(call.results[j].score, call.results[i].score)
    /\ \A i \in 1..Len(call.results) :
          LET r == call.results[i]
              dist == L2sqr(encode(r.text), encode(call.query))
          IN  /\ r.score.den > 0
              /\ r.score.num * (1 + dist) = r.score.den
              /\ 0 < r.score.num
              /\ r.score.num <= r.score.den

\* C20 as stated: on an index holding N fragments, search with k >= N
\* returns N results in non-increasing order of score, each score being
\* 1 / (1 + distance) and lying in (0, 1].
C20_ResultsRankedByScore ==
    (search_call.op = "search" /\ search_call.k >= search_call.size)
        => RankedByScore(search_call)

\* C20 amended: the same when the query is embedded; when the embedding
\* raises, search returns the empty list.
C20_ResultsRankedByScoreIfEmbedded ==
    (search_call.op = "search" /\ search_call.k >= search_call.size)
        => IF search_call.raised
           THEN search_call.results = <<>>
           ELSE RankedByScore(search_call)

C20_Witness ==
    /\ search_call.op = "search"
    /\ ~search_call.raised
    /\ search_call.size = 3
    /\ search_call.k >= 3
    /\ Len(search_call.results) = 3
    /\ ~FracLeq(search_call.results[1].score, search_call.results[3].score)

\* the session states a handler can leave, computed from the session of the
\* user of the turn alone
OwnOutcomes(state, t) ==
    IF t.op = "message"
    THEN { o.st : o \in { x \in handle_message(state, t.msg) :
                             x.br = t.br /\ x.out = t.out /\ x.res = t.res } }
    ELSE IF t.op = "start" THEN { start(state) }
    ELSE IF t.op = "update" THEN { update_course_command(state) }
    ELSE { language_callback(state, t.msg) }

\* C17: a turn of one user leaves the session record of every other user as
\* it was (and creates none for them), and the session it leaves for its own
\* user is what the handler computes from that user's session alone, so
\* each session ends as if only its user's turns had been run.
C17_SessionsIndependent ==
    [][\A u \in TwoUsers :
          IF turn'.user = u
          THEN user_states'[u] \in OwnOutcomes(StateOf(user_states, u), turn')
          ELSE IF u \in DOMAIN user_states
          THEN u \in DOMAIN user_states' /\ user_states'[u] = user_states[u]
          ELSE u \notin DOMAIN user_states']_vars

C17_Witness ==
    /\ DOMAIN user_states = TwoUsers
    /\ ReadyForQuery(user_states["u1"])
    /\ user_states["u1"].language = ES
    /\ user_states["u2"].language = QU
    /\ Asked(user_states["u2"]) = <<"ciclo">>
    /\ MessageTurn(turn, "u2")


\* C16 as stated: in every reachable state the message history of a session
\* holds at most 50 entries.
C16_HistoryAtMost50 ==
    \A u \in DOMAIN user_states : Len(user_states[u].messages) <= MaxMessages

\* the entries of a history that an access keeps: the 50 most recent ones
\* in their order
MostRecent(messages) ==
    [i \in 1..Min(Len(messages), MaxMessages) |->
        messages[i + Len(messages) - Min(Len(messages), MaxMessages)]]

\* C16, amended: the history is cut when the session is accessed, not when
\* an entry is appended.  A query turn works on the 50 most recent entries
\* of the stored history in their original order (all of them if there are
\* no more than 50) and leaves them followed by the question and the reply;
\* so the stored history holds at most 50 entries plus the two of the last
\* turn.
C16_HistoryCutOnAccess ==
    [][\A u \in DOMAIN user_states :
          (turn'.op = "query" /\ turn'.user = u) =>
              /\ Len(MostRecent(user_states[u].messages)) <= MaxMessages
              /\ user_states'[u].messages =
                     MostRecent(user_states[u].messages)
                     \o << User(turn'.msg), Assistant(turn'.res) >>
              /\ Len(user_states'[u].messages) <= MaxMessages + 2]_vars

\* after 27 query turns that were all answered the stored history holds 52
\* entries, the first question and answer have been dropped and the rest is
\* in order
C16_Witness ==
    /\ turn.op = "query"
    /\ capability = [answers |-> (MaxMessages \div 2) + 2, failed |-> 0]
    /\ Len(user_states["u1"].messages) = MaxMessages + 2
    /\ user_states["u1"].messages[2] = Assistant(Answer(2))
    /\ user_states["u1"].messages[MaxMessages + 2]
           = Assistant(Answer((MaxMessages \div 2) + 2))


\* the texts of a result list
ResultTexts(results) == { results[i].text : i \in 1..Len(results) }

IndexEmpty(self) ==
    /\ Len(self.texts) = 0
    /\ Len(self.metadata) = 0
    /\ Len(self.index.vectors) = 0

\* C21: the texts, the metadata entries and the vectors of the content index
\* are equally many in every state; a call of add_texts that succeeds
\* appends the given fragments, in the order given, to all three and a call
\* that fails appends nothing, so the three hold the fragments added since
\* the last clear in insertion order; clear empties all three, and clearing
\* what clear has left changes nothing.
C21_IndexHoldsAddedFragments ==
    [][/\ Len(semantic_search'.texts) = Len(semantic_search'.metadata)
       /\ Len(semantic_search'.texts) = Len(semantic_search'.index.vectors)
       /\ search_call'.op = "clear" =>
              /\ IndexEmpty(semantic_search')
              /\ clear(semantic_search') = semantic_search'
       /\ (search_call'.op = "add_texts" /\ ~search_call'.raised) =>
              /\ semantic_search'.texts
                     = semantic_search.texts \o search_call'.added
              /\ semantic_search'.metadata
                     = semantic_search.metadata
                       \o [i \in 1..Len(search_call'.added) |->
                              MetadataOf(search_call'.added[i])]
              /\ semantic_search'.index.vectors
                     = semantic_search.index.vectors
                       \o [i \in 1..Len(search_call'.added) |->
                              encode(search_call'.added[i])]
       /\ (search_call'.op = "add_texts" /\ search_call'.raised) =>
              semantic_search' = semantic_search]_vars

\* one fragment is stored and a second call has just added two more
C21_Witness ==
    /\ search_call.op = "add_texts"
    /\ ~search_call.raised
    /\ search_call.added = <<"f3", "f0">>
    /\ semantic_search.texts = <<"f1", "f3", "f0">>
    /\ semantic_search.index.vectors = <<1, 3, 0>>


\* the calls of a turn
Called(t) == { t.calls[i] : i \in 1..Len(t.calls) }

\* C22: a turn that finds no record of the session's course in the data
\* store reads the known course names from the data store, which the reply
\* is to list, and asks the language capability for no answer.
C22_NoCourseListsCourses ==
    [][turn'.out = "no_course_info" =>
          /\ "get_courses" \in Called(turn')
          /\ Called(turn') \cap { "process_query", "invoke" } = {}]_vars


\* how many entries of a history have the role assistant
AssistantEntries(messages) ==
    Cardinality({ i \in 1..Len(messages) : messages[i].role = "assistant" })

\* the language capability was asked for an answer and raised
AnswerFailed(t) ==
    t.op = "query" /\ t.out = "error" /\ "invoke" \in Called(t)

\* C23: when the language capability raises in a query turn it has been
\* called once, the turn returns the try-again message, the flags and the
\* selectors of the session are as before, and the history has gained no
\* entry of role assistant.
C23_FailedAnswerLeavesNoEntry ==
    [][\A u \in TwoUsers :
          (AnswerFailed(turn') /\ turn'.user = u) =>
              /\ Cardinality({ i \in 1..Len(turn'.calls) :
                                  turn'.calls[i] = "invoke" }) = 1
              /\ turn'.res = QUERY_ERROR
              /\ Selectors(user_states'[u]) = Selectors(user_states[u])
              /\ WaitingFlags(user_states'[u]) = WaitingFlags(user_states[u])
              /\ AssistantEntries(user_states'[u].messages)
                     = AssistantEntries(user_states[u].messages)]_vars


\* C24: after a turn that has answered a question the history of the
\* session ends with an entry of role assistant, and where the turn hands
\* back the answer of the language capability that entry holds it.
C24_AnswerIsLastEntry ==
    [][\A u \in DOMAIN user_states' :
          (turn'.user = u /\ turn'.out = "answered") =>
              /\ Len(user_states'[u].messages) > 0
              /\ user_states'[u].messages[Len(user_states'[u].messages)].role
                     = "assistant"
              /\ turn'.op = "query" =>
                     user_states'[u].messages[Len(user_states'[u].messages)]
                         = Assistant(turn'.res)]_vars


\* the rows whose cycle and module are those of the session
RowsOfCycleAndModule(rows, state) ==
    SelectSeq(rows, LAMBDA row : row.ciclo = state.ciclo
                                 /\ row.modulo = state.modulo)

\* C25: the updates and the documents a question is answered from are the
\* rows of the stored course record that have the cycle and the module of
\* the session, whatever their section.
C25_AnswerUsesCycleAndModuleRows ==
    [][\A u \in Users :
          (MessageTurn(turn', u) /\ turn'.br = "query"
           /\ turn'.out \in { "answered", "query_error" }) =>
              \E record \in CourseRecords :
                  /\ record.found
                  /\ turn'.res.updates
                         = RowsOfCycleAndModule(record.updates,
                                                user_states'[u])
                  /\ turn'.res.documents
                         = RowsOfCycleAndModule(record.documents,
                                                user_states'[u])]_vars


\* the texts of the first five results
TopFive(results) ==
    { results[i].text : i \in 1..Min(Len(results), TopK) }

\* C26: when a query has run, a fragment it gathered is among the results
\* surfaced as relevant if and only if it is among the first five results of
\* the search and its squared distance from the question is below 1, which
\* is a score above 0.5; a fragment at distance 1, score 0.5, is not
\* surfaced.
C26_RelevantIffTopFiveAndNear ==
    \A t \in QueryTasks :
        tasks[t].pc = "done" =>
            \A i \in 1..Len(tasks[t].texts) :
                (tasks[t].texts[i] \in ResultTexts(tasks[t].relevant))
                <=> (/\ tasks[t].texts[i] \in TopFive(tasks[t].results)
                     /\ L2sqr(encode(tasks[t].texts[i]),
                              encode(tasks[t].consulta)) < 1)

\* six fragments are at distance 0 from the question: five are surfaced and
\* the sixth, as near as they are, is not among the results
C26_Witness ==
    /\ tasks["t1"].pc = "done"
    /\ tasks["t1"].consulta = "q0"
    /\ tasks["t1"].texts = <<"f0", "g0", "g1", "g2", "g3", "g4">>
    /\ Len(tasks["t1"].relevant) = TopK
    /\ "g4" \notin ResultTexts(tasks["t1"].relevant)


\* C27: in every state the module of a session and the module of a pending
\* update are unset or one of A and B.
C27_ModuleIsAOrB ==
    \A u \in DOMAIN user_states :
        /\ user_states[u].modulo \in { None, <<"A">>, <<"B">> }
        /\ user_states[u].update_modulo \in { None, <<"A">>, <<"B">> }


\* the session is in the update flow, asked to confirm the suggested category
AtConfirmation(state) ==
    Truthy(state.updating_course)
    /\ state.update_step = <<"category_confirmation">>

\* what C28 says of a turn at the confirmation: an affirmative word, in any
\* case, keeps the category and asks for the cycle; any other text asks for
\* the category
ConfirmationRouted(pre, post, message) ==
    IF str_lower(message) \in Affirmatives
    THEN /\ post.update_category = pre.update_category
         /\ post.update_step = <<"ciclo_selection">>
    ELSE post.update_step = <<"category_input">>

\* C28 as stated: every text sent at the confirmation is routed that way.
C28_ConfirmationRoutesEveryInput ==
    [][\A u \in Users :
          (MessageTurn(turn', u) /\ AtConfirmation(StateOf(user_states, u)))
              => ConfirmationRouted(StateOf(user_states, u), user_states'[u],
                                    turn'.msg)]_vars

\* C28, amended: a text sent at the confirmation that is not the reset
\* keyword and that the moderation check approves is routed that way, and
\* the turn changes nothing but the update step.  The reset keyword resets
\* the session and a rejected text leaves it at the confirmation.
C28_ConfirmationRoutesApprovedInput ==
    [][\A u \in Users :
          (MessageTurn(turn', u) /\ AtConfirmation(StateOf(user_states, u)))
              => IF turn'.br = "reset"
                 THEN ~Truthy(user_states'[u].updating_course)
                 ELSE IF turn'.br = "gate"
                 THEN user_states'[u] = StateOf(user_states, u)
                 ELSE /\ ConfirmationRouted(StateOf(user_states, u),
                                            user_states'[u], turn'.msg)
                      /\ user_states'[u]
                             = [StateOf(user_states, u) EXCEPT !.update_step
                                   = user_states'[u].update_step]]_vars

\* "Si" has been sent at the confirmation: the suggestion is kept and the
\* cycle is asked for
C28_Witness ==
    \E u \in Users :
        /\ MessageTurn(turn, u)
        /\ turn.br = "update_category_confirmation"
        /\ turn.msg = <<"S","i">>
        /\ user_states[u].update_step = <<"ciclo_selection">>
        /\ user_states[u].update_category = GENERAL


\* the fields of a session that has just been created, but for its history
InitialSession(state) ==
    /\ state.waiting_for_language = PyTrue
    /\ state.language = None
    /\ \A key \in {"course", "section", "ciclo", "modulo",
                   "pending_course_confirmation"} : state[key] = None
    /\ \A key \in {"waiting_for_course", "waiting_for_section",
                   "waiting_for_ciclo", "waiting_for_modulo"} :
           state[key] = PyFalse
    /\ state.updating_course = PyFalse
    /\ \A key \in {"update_step", "update_course", "update_content",
                   "update_category", "update_ciclo", "update_modulo",
                   "update_file_path", "temp_file_path"} : state[key] = None

\* C29: a query turn of a user without a session creates the session in the
\* initial state with an empty history, to which the turn appends its two
\* entries; a query turn of a user with a session works on that session as
\* it is stored, but for a history cut to its 50 most recent entries; the
\* sessions of other users are neither created nor changed.
C29_SessionCreatedOnFirstAccess ==
    [][\A u \in TwoUsers :
          (turn'.op = "query" /\ turn'.user = u) =>
              /\ DOMAIN user_states' = DOMAIN user_states \cup {u}
              /\ \A v \in DOMAIN user_states \ {u} :
                     user_states'[v] = user_states[v]
              /\ IF u \in DOMAIN user_states
                 THEN user_states'[u] =
                          [user_states[u] EXCEPT !.messages =
                              MostRecent(@) \o << User(turn'.msg),
                                                  Assistant(turn'.res) >>]
                 ELSE /\ InitialSession(user_states'[u])
                      /\ user_states'[u].messages =
                             << User(turn'.msg), Assistant(turn'.res) >>]_vars

\* the first user has asked 27 times and the stored history has lost the
\* first question and answer; then the second user has asked for the first
\* time
C29_Witness ==
    /\ turn.op = "query"
    /\ turn.user = "u2"
    /\ DOMAIN user_states = TwoUsers
    /\ Len(user_states["u2"].messages) = 2
    /\ Len(user_states["u1"].messages) = MaxMessages + 2
    /\ user_states["u1"].messages[2] = Assistant(Answer(2))


\* what the storage gives when the listing or the fetch of a listed
\* document fails
FailedListings ==
    { listing \in Listings :
        \/ listing.raised
        \/ \E i \in 1..Len(listing.contents) : listing.contents[i] = "" }

\* the outcomes of a query that awaits the storage, if the storage gives
\* this listing
OutcomesAfter(t, listing) ==
    UNION { query_finish(semantic_search, tasks[t].consulta, tasks[t].texts,
                         listing, tasks[t].documents, raises,
                         capability.answers + 1)
            : raises \in [add : BOOLEAN, search : BOOLEAN, llm : BOOLEAN] }

Locators(t, listing) ==
    { s3_url(listing.keys[i]) : i \in 1..Len(listing.keys) }
    \cup { tasks[t].documents[i].file_path : i \in 1..Len(tasks[t].documents) }

\* C31: whenever a query awaits the storage, whatever the storage lists, the
\* fragments the query gathers besides the updates are at most as many as
\* the documents it can draw on: a listed object that is also a catalogued
\* document of the course record gives one fragment, not two.
C31_DocumentContributesOnce ==
    \A t \in QueryTasks :
        tasks[t].pc = "listing" =>
            \A listing \in Listings :
                \A o \in OutcomesAfter(t, listing) :
                    Len(o.texts) - Len(tasks[t].texts)
                        <= Cardinality(Locators(t, listing))


\* the embedding raises in add_texts or in search
EmbeddingFails ==
    { raises \in [add : BOOLEAN, search : BOOLEAN, llm : BOOLEAN] :
        raises.add \/ raises.search }

\* C32: whenever a query awaits the storage, whatever the storage gives, if
\* the embedding then raises while the fragments are indexed or searched the
\* query still calls the language capability, and it ends with the apology
\* only if that call raises.
C32_EmbeddingFailureRecoverable ==
    \A t \in QueryTasks :
        tasks[t].pc = "listing" =>
            \A listing \in Listings, raises \in EmbeddingFails :
                \A o \in query_finish(semantic_search, tasks[t].consulta,
                                      tasks[t].texts, listing,
                                      tasks[t].documents, raises,
                                      capability.answers + 1) :
                    /\ \E i \in 1..Len(o.calls) : o.calls[i] = "invoke"
                    /\ ~raises.llm => o.content # QUERY_ERROR


\* course, section, cycle and module of a session are all set
AllSelectorsSet(state) ==
    /\ Truthy(state.course)
    /\ Truthy(state.section)
    /\ Truthy(state.ciclo)
    /\ Truthy(state.modulo)

\* no waiting_for_ flag of the session is set
NothingAwaited(state) ==
    /\ ~Truthy(state.waiting_for_language)
    /\ ~Truthy(state.waiting_for_course)
    /\ ~Truthy(state.waiting_for_section)
    /\ ~Truthy(state.waiting_for_ciclo)
    /\ ~Truthy(state.waiting_for_modulo)

\* C33: in every reachable state, if the last turn was handled as a
\* free-text question (the data store was asked for the course record) the
\* session of its user has course, section, cycle and module set; and every
\* session that awaits nothing and has a course has section, cycle and
\* module set as well.
C33_QueryHasAllSelectors ==
    /\ \A u \in Users :
           (MessageTurn(turn, u) /\ turn.br = "query")
               => AllSelectorsSet(user_states[u])
    /\ \A u \in DOMAIN user_states :
           (NothingAwaited(user_states[u]) /\ Truthy(user_states[u].course))
               => AllSelectorsSet(user_states[u])


\* C34: every step leaves can_return_to_menu true in every session, and a
\* text that is the reset keyword (in any case) is always handled as a
\* reset request: the session becomes what reset_state makes of it.
C34_ResetNeverIgnored ==
    [][/\ \A u \in DOMAIN user_states' :
              user_states'[u].can_return_to_menu = PyTrue
       /\ \A u \in Users :
              (MessageTurn(turn', u) /\ str_lower(turn'.msg) \in MenuKeywords)
                  => /\ turn'.br = "reset"
                     /\ user_states'[u]
                            = reset_state(StateOf(user_states, u))]_vars

\* "Menu" has been sent by a user who had chosen a language, and the session
\* has been reset
C34_Witness ==
    \E u \in Users :
        /\ MessageTurn(turn, u)
        /\ turn.msg = <<"M","e","n","u">>
        /\ turn.br = "reset"
        /\ Truthy(user_states[u].language)
        /\ user_states[u].can_return_to_menu = PyTrue
        /\ user_states[u].waiting_for_course = PyTrue


\* C35: every record that a turn of the update flow inserts has one of the
\* six fixed labels for its category.
C35_CommittedCategoryIsLabel ==
    \A i \in 1..Len(turn.rows) : turn.rows[i].category \in Categories


\* the update-* fields and the update step
UpdateKeys ==
    {"update_step", "update_course", "update_content", "update_category",
     "update_ciclo", "update_modulo", "update_file_path", "temp_file_path"}

\* C36: a text turn of a session in the update flow that neither commits
\* nor resets leaves course, section, cycle and module as they were, and
\* changes no field of the session but the update-* fields and the update
\* step.
C36_UpdateTurnsKeepSelectors ==
    [][\A u \in Users :
          LET pre == StateOf(user_states, u)
              post == user_states'[u]
          IN  (/\ MessageTurn(turn', u)
               /\ Truthy(pre.updating_course)
               /\ turn'.br # "reset"
               /\ turn'.out # "committed")
                  => /\ Selectors(post) = Selectors(pre)
                     /\ \A key \in DOMAIN pre \ UpdateKeys :
                            post[key] = pre[key]]_vars


\* the records all handlers have inserted
Inserted == tasks["t1"].rows \o tasks["t2"].rows

C38_FailedCommitKeepsSession ==
    [][\A u \in Users :
          LET pre == StateOf(user_states, u)
              post == user_states'[u]
          IN  (/\ MessageTurn(turn', u)
               /\ turn'.br = "update_modulo_selection"
               /\ turn'.out = "error")
                  => /\ turn'.rows = <<>>
                     /\ Truthy(post.updating_course)
                     /\ post.update_step = <<"modulo_selection">>
                     /\ post = [pre EXCEPT !.update_modulo = turn'.res]]_vars

\* the data store has refused the insert of a complete update: the session
\* is still at the module step with the pending fields
C38_Witness ==
    \E u \in Users :
        /\ MessageTurn(turn, u)
        /\ turn.br = "update_modulo_selection"
        /\ turn.out = "error"
        /\ "get_connection" \in { turn.calls[i] : i \in 1..Len(turn.calls) }
        /\ missing_fields(user_states[u]) = {}
        /\ user_states[u].update_step = <<"modulo_selection">>


\* the outcomes of a turn in which the capability asked to match a course
\* or a module finds it
Favourable(outcomes) ==
    { o \in outcomes :
        /\ o.br \in {"course", "update_course_selection"}
               => o.res = <<"Algoritmos">>
        /\ o.br \in {"modulo", "update_modulo_selection"} => o.res = <<"A">> }

\* the sessions that such a turn can leave if its text, which is not the
\* reset keyword, is approved by the moderation check
After(states, message) ==
    UNION { { o.st : o \in Favourable(
                            dispatch_message(state, message,
                                <<"detect_inappropriate_content">>)) }
            : state \in states }

\* the sessions left by the reset keyword, a course text, a section, a cycle
\* and a module text, sent in this order
Recovered(state) ==
    After(After(After(After({ o.st : o \in handle_message(state,
                                                          <<"M","e","n","u">>) },
                            <<"A","l","g","o">>),
                      <<" ","G","1">>),
                <<"2","0","2","4","1">>),
          <<"A">>)

\* C39: from every reachable session with a language set, the reset
\* keyword, a course text that is matched, a section, a valid cycle and a
\* module text that is matched, all approved by the moderation check, lead
\* to a session that is ready for queries with these four selectors.
C39_NeverStuck ==
    \A u \in DOMAIN user_states :
        Truthy(user_states[u].language) =>
            /\ Recovered(user_states[u]) # {}
            /\ \A state \in Recovered(user_states[u]) :
                   /\ ReadyForQuery(state)
                   /\ Selectors(state)
                          = << <<"Algoritmos">>, <<"G","1">>,
                               <<"2","0","2","4","1">>, <<"A">> >>


\* a session in the update flow, asked to type a category, with a course
\* of the query flow selected before: these five turns lead it to ready for
\* queries
C39_Witness ==
    \E u \in DOMAIN user_states :
        /\ Truthy(user_states[u].language)
        /\ Truthy(user_states[u].updating_course)
        /\ user_states[u].update_step = <<"category_input">>
        /\ Truthy(user_states[u].course)
        /\ \E state \in Recovered(user_states[u]) : ReadyForQuery(state)

====
